---- MODULE Spec2Model ----
(***************************************************************************)
(* Behavioural-analysis core of the sandbox: the systemtap trace parser    *)
(* (StapParser), the per-process call-stream view (FilteredProcessLog),    *)
(* the reconstruction pass (LinuxSystemTap.parse with its hooks) and the   *)
(* BehaviorReconstructor descriptor tracking.                              *)
(*                                                                         *)
(* Text values (return values, descriptors, paths, argv words) are         *)
(* sequences of one-character strings, so that int(), basename(), join()   *)
(* and truthiness are computed as Python computes them.  API names, dict   *)
(* keys and fact names, which the code only compares with literals, are    *)
(* plain strings.                                                          *)
(***************************************************************************)
EXTENDS Integers, Sequences, FiniteSets, TLC

VARIABLES
    \* StapParser over one log file, and two traversals of it
    log,         \* the events the lines of the file decode to, in file order
    fdpos,       \* self.fd: the number of lines the file object has handed out
    trav,        \* the two generators: their kind, filters, position and output
    h_overlap,   \* history: a traversal advanced while the other was under way
    \* BehaviorReconstructor (one instance, driven on its own)
    recon,       \* [files, sockets]: the instance's two descriptor maps
    ret,         \* what process_apicall returned for the last event
    h_open,      \* history: fd -> path of every open not closed or re-opened since
    h_tracked,   \* history: descriptors returned by open/socket, not closed since
    h_closed,    \* history: descriptors closed and not returned by an open since
    h_opened,    \* history: descriptors some open has returned
    h_prev,      \* history: recon, h_tracked and h_closed before the last event
    \* LinuxSystemTap (one reconstruction pass)
    processes,   \* self.processes: list of process records
    forkmap,     \* self.forkmap: child pid -> parent pid
    behavior,    \* self.behavior: pid -> BehaviorReconstructor state
    yielded,     \* what parse yielded while handling the last event
    last,        \* the event parse handled last
    nevents,     \* number of trace events consumed so far
    h_forked,    \* history: <<P, C>> for every clone/fork by P returning C
    h_after,     \* history: those <<P, C>> with a later event of pid C
    h_parent,    \* history: pid -> issuer of the last clone/fork returning it
    h_first,     \* history: pid -> h_parent[pid] at its first tracked event
    h_execs,     \* history: pid -> number of execve updates of its record
    h_pre,       \* history: last.pid's record as post_hook found it (none when skipped)
    \* LinuxSystemTap: path matching and the result of the module
    matched,     \* self.matched
    runres,      \* whether run was called, and what its last call returned
    h_accepted,  \* history: handles_path was given a path ending in .stap
    h_before,    \* history: self.processes and h_accepted as the last run found them
    \* Signature (one instance, with its SignatureFlags)
    sig,         \* the instance: data, flags.data, pid, tid, cid, marks, _active
    incall,      \* the instance's own on_call is running (called by goto_on_call)
    op,          \* the operation called last and, for flags, its arguments
    sigret,      \* what the last operation returned or raised
    h_sig,       \* history: calls of goto_on_call, mark_*, add_match so far
                 \* (endfirst: the last mark_end came before the last mark_start)
    \* two Signature instances A and B, with the list objects they refer to
    heap,        \* list object -> its contents
    insts,       \* instance -> its attributes; data and flags.data are references
    \* StapParser decoding one line
    stapline,    \* the parts of the line: the API name and the argument blob
    stapevent,   \* the event the parser yields for it (None before decoding)
    \* the check helpers of Signature
    query,       \* the arguments of the last check
    answer,      \* what it returned or raised
    \* LibVirtMachinery (one operation on one machine)
    mach,        \* the operation under way: where it is, what it has done
    timeout      \* options_globals.timeouts.vm_state

parseVars == <<processes, forkmap, behavior, yielded, nevents,
               h_forked, h_after, h_parent, h_first, h_execs, h_pre>>

reconVars == <<recon, ret, h_open, h_tracked, h_closed, h_opened, h_prev>>

viewVars == <<log, fdpos, trav, h_overlap>>

runVars == <<matched, runres, h_accepted, h_before>>

sigVars == <<sig, incall, op, sigret, h_sig>>

twoVars == <<heap, insts>>

parserVars == <<stapline, stapevent>>

checkVars == <<query, answer>>

machVars == <<mach, timeout>>

restVars == <<twoVars, parserVars, checkVars, machVars>>

vars == <<parseVars, reconVars, viewVars, runVars, sigVars, restVars, last>>

-----------------------------------------------------------------------------
(* Bounds of the model *)

MaxPid == 3
MaxEvents == 3
MaxFd == 4
MaxLines == 3
MaxTime == 1
MaxMatches == 2
MaxFlags == 2
MaxWidth == 2
MaxItems == 3
MaxTimeout == 2

-----------------------------------------------------------------------------
(* Python helpers on text *)

EmptyMap == [z \in {} |-> 0]

Put(f, k, v) == [z \in (DOMAIN f) \cup {k} |-> IF z = k THEN v ELSE f[z]]

Pop(f, k) == [z \in (DOMAIN f) \ {k} |-> f[z]]

DigitVal(c) ==
    CASE c = "0" -> 0 [] c = "1" -> 1 [] c = "2" -> 2 [] c = "3" -> 3
      [] c = "4" -> 4 [] c = "5" -> 5 [] c = "6" -> 6 [] c = "7" -> 7
      [] c = "8" -> 8 [] c = "9" -> 9

RECURSIVE NatOf(_)
NatOf(s) ==
    IF s = <<>> THEN 0
    ELSE 10 * NatOf(SubSeq(s, 1, Len(s) - 1)) + DigitVal(s[Len(s)])

\* int(s) for a decimal numeral with an optional sign
int(s) == IF s[1] = "-" THEN 0 - NatOf(Tail(s)) ELSE NatOf(s)

\* Python truthiness of a str or list: empty is falsy, anything else truthy
Truthy(s) == s # <<>>

\* os.path.basename: what follows the last "/"
RECURSIVE basename(_)
basename(p) ==
    IF p = <<>> THEN <<>>
    ELSE IF p[Len(p)] = "/" THEN <<>>
    ELSE basename(SubSeq(p, 1, Len(p) - 1)) \o <<p[Len(p)]>>

\* " ".join(words)
RECURSIVE join(_)
join(words) ==
    IF words = <<>> THEN <<>>
    ELSE IF Len(words) = 1 THEN words[1]
    ELSE words[1] \o <<" ">> \o join(Tail(words))

-----------------------------------------------------------------------------
(* Trace events, as StapParser yields them *)

\* the post_parse_* dispatch table: the category each API name is given
CategoryOf(api) ==
    IF api \in {"open", "creat", "chmode", "chdir", "stat", "chown",
                "write", "read", "close"} THEN "file"
    ELSE IF api \in {"socket", "getsockopt", "setsockopt", "accept", "accept4",
                     "connect", "bind", "getsockname", "getpeername"}
         THEN "network"
    ELSE "default"

\* the event dict built for one trace line ("raw", the line itself, is left out)
Event(t, pid, api, args, retval) ==
    [time |-> t, process_name |-> <<"s", "h">>, pid |-> pid,
     instruction_pointer |-> <<"7", "f">>, api |-> api, arguments |-> args,
     return_value |-> retval, status |-> <<>>, category |-> CategoryOf(api),
     type |-> "apicall"]

NoEvent == Event(0, 0, "", EmptyMap, <<>>)

DigitChar(d) ==
    CASE d = 0 -> "0" [] d = 1 -> "1" [] d = 2 -> "2" [] d = 3 -> "3"
      [] d = 4 -> "4" [] d = 5 -> "5" [] d = 6 -> "6" [] d = 7 -> "7"
      [] d = 8 -> "8" [] d = 9 -> "9"

\* the decimal numeral of a natural number, as the trace prints it
RECURSIVE Numeral(_)
Numeral(n) ==
    IF n < 10 THEN <<DigitChar(n)>>
    ELSE Numeral(n \div 10) \o <<DigitChar(n % 10)>>

Pids == 1..MaxPid

\* descriptors a trace line can carry: small numbers, and the error return -1
Fds == {Numeral(f) : f \in 3..MaxFd} \cup {<<"-", "1">>}

Paths == {<<"/", "a">>, <<"/", "b">>}

\* the one descriptor and the one path of the events of the reconstruction pass
\* and of the log: what the handlers do with several descriptors and paths is
\* explored on one BehaviorReconstructor, under SpecRecon
ParseFds == {Numeral(3)}

ParsePaths == {<<"/", "a">>}

SockArgs == [domain |-> <<"A">>, type |-> <<"S">>, protocol |-> <<"0">>]

\* events of the calls BehaviorReconstructor has a handler for, and one it has not
OpenEvents(pids, fds, paths) ==
    {Event(0, p, "open", [path |-> q, mode |-> <<"R">>], f) :
        <<p, f, q>> \in pids \X fds \X paths}

FdEvents(pids, fds) ==
    {Event(0, p, a, [fd |-> f], <<"0">>) :
        <<p, a, f>> \in pids \X {"write", "read", "close"} \X fds}

StatEvents(pids, paths) ==
    {Event(0, p, "stat", [path |-> q], <<"0">>) : <<p, q>> \in pids \X paths}

SocketEvents(pids, fds) ==
    {Event(0, p, "socket", SockArgs, f) : <<p, f>> \in pids \X fds}

ConnectEvents(pids, fds) ==
    {Event(0, p, "connect", [sockfd |-> f, addr |-> <<"I">>], <<"0">>) :
        <<p, f>> \in pids \X fds}

OtherEvents(pids) ==
    {Event(0, p, "getpid", EmptyMap, Numeral(p)) : p \in pids}

ForkEvents(pids) ==
    {Event(0, p, a, EmptyMap, Numeral(c)) :
        <<p, a, c>> \in pids \X {"clone", "fork"} \X Pids}

\* an execve line ends "= <retval>"; a line that stops after "=" gives the
\* empty return value.  argv [] and [""] both decode to the list [""].
ExecPaths == {<<"/", "x", "/", "l">>, <<"c">>}

Argvs == {<< <<>> >>, << <<"l">>, <<"-", "a">> >>}

ExecveEvents(pids) ==
    {Event(0, p, "execve", [p0 |-> q, p1 |-> v], r) :
        <<p, q, v, r>> \in pids \X ExecPaths \X Argvs \X {<<>>, <<"0">>}}

-----------------------------------------------------------------------------
(* BehaviorReconstructor *)

single(key, value) == << <<key, value>> >>

\* a reconstructor that starts out with a descriptor somebody else opened
NewReconstructor_preloaded ==
    [files |-> Put(EmptyMap, Numeral(3), <<"/", "a">>), sockets |-> EmptyMap]

NewReconstructor == [files |-> EmptyMap, sockets |-> EmptyMap]

\* each handler gives the instance's next state and the handler's return value
\* (None is the empty list, as process_apicall turns it into one)
Handled(b, out) == [files |-> b.files, sockets |-> b.sockets, out |-> out]

\* an open handler that tracks nothing when the call failed
api_open_checked(b, return_value, arguments) ==
    IF return_value[1] = "-" THEN Handled(b, <<>>)
    ELSE [files |-> Put(b.files, return_value, arguments.path),
          sockets |-> b.sockets,
          out |-> single("files_opened", arguments.path)]

api_open(b, return_value, arguments) ==
    [files |-> Put(b.files, return_value, arguments.path),
     sockets |-> b.sockets,
     out |-> single("files_opened", arguments.path)]

\* a write that reports whatever files.get(fd) gives, tracked or not
api_write_unchecked(b, return_value, arguments) ==
    Handled(b, single("files_writen",
                      IF arguments.fd \in DOMAIN b.files
                      THEN b.files[arguments.fd] ELSE <<>>))

api_write(b, return_value, arguments) ==
    IF arguments.fd \in DOMAIN b.files
    THEN Handled(b, single("files_writen", b.files[arguments.fd]))
    ELSE Handled(b, <<>>)

api_read(b, return_value, arguments) ==
    IF arguments.fd \in DOMAIN b.files
    THEN Handled(b, single("files_read", b.files[arguments.fd]))
    ELSE Handled(b, <<>>)

\* a close that forgets the socket but not the file
api_close_keepfile(b, return_value, arguments) ==
    [files |-> b.files,
     sockets |-> IF arguments.fd \in DOMAIN b.sockets
                 THEN Pop(b.sockets, arguments.fd) ELSE b.sockets,
     out |-> <<>>]

api_close(b, return_value, arguments) ==
    [files |-> IF arguments.fd \in DOMAIN b.files
               THEN Pop(b.files, arguments.fd) ELSE b.files,
     sockets |-> IF arguments.fd \in DOMAIN b.sockets
                 THEN Pop(b.sockets, arguments.fd) ELSE b.sockets,
     out |-> <<>>]

api_stat(b, return_value, arguments) ==
    Handled(b, single("file_exists", arguments.path))

api_connect(b, return_value, arguments) ==
    Handled(b, single("connects_ip", arguments.addr))

api_socket(b, return_value, arguments) ==
    [files |-> b.files,
     sockets |-> Put(b.sockets, return_value, arguments),
     out |-> single("socket", arguments.type)]

process_apicall_reporting(b, event) ==
    LET r == event.return_value
        a == event.arguments
    IN  CASE event.api = "open" -> api_open(b, r, a)
          [] event.api = "write" -> api_write(b, r, a)
          [] event.api = "read" -> api_read(b, r, a)
          [] event.api = "close" -> api_close(b, r, a)
          [] event.api = "stat" -> api_stat(b, r, a)
          [] event.api = "connect" -> api_connect(b, r, a)
          [] event.api = "socket" -> api_socket(b, r, a)
          [] OTHER -> Handled(b, single("unknown", event.api))

\* getattr(self, "_api_%s" % event["api"], None): the handler, when there is one
process_apicall(b, event) ==
    LET r == event.return_value
        a == event.arguments
    IN  CASE event.api = "open" -> api_open(b, r, a)
          [] event.api = "write" -> api_write(b, r, a)
          [] event.api = "read" -> api_read(b, r, a)
          [] event.api = "close" -> api_close(b, r, a)
          [] event.api = "stat" -> api_stat(b, r, a)
          [] event.api = "connect" -> api_connect(b, r, a)
          [] event.api = "socket" -> api_socket(b, r, a)
          [] OTHER -> Handled(b, <<>>)

StateOf(r) == [files |-> r.files, sockets |-> r.sockets]

-----------------------------------------------------------------------------
(* One BehaviorReconstructor driven call by call *)

\* the history of descriptors, kept from the events alone
OpenAfter(o, event) ==
    IF event.api = "open" THEN Put(o, event.return_value, event.arguments.path)
    ELSE IF event.api = "close" THEN Pop(o, event.arguments.fd)
    ELSE o

TrackedAfter(t, event) ==
    IF event.api \in {"open", "socket"} THEN t \cup {event.return_value}
    ELSE IF event.api = "close" THEN t \ {event.arguments.fd}
    ELSE t

ClosedAfter(c, event) ==
    IF event.api = "close" THEN c \cup {event.arguments.fd}
    ELSE IF event.api = "open" THEN c \ {event.return_value}
    ELSE c

ReconCall(event) ==
    LET r == process_apicall(recon, event)
    IN  /\ recon' = StateOf(r)
        /\ ret' = r.out
        /\ last' = event
        /\ h_open' = OpenAfter(h_open, event)
        /\ h_tracked' = TrackedAfter(h_tracked, event)
        /\ h_closed' = ClosedAfter(h_closed, event)
        /\ h_opened' = IF event.api = "open"
                       THEN h_opened \cup {event.return_value} ELSE h_opened
        /\ h_prev' = [recon |-> recon, open |-> h_open,
                      tracked |-> h_tracked, closed |-> h_closed]
        /\ UNCHANGED <<parseVars, viewVars, runVars, sigVars, restVars>>

CallOpen == \E event \in OpenEvents({1}, Fds, Paths) : ReconCall(event)

CallFd == \E event \in FdEvents({1}, Fds) : ReconCall(event)

CallStat == \E event \in StatEvents({1}, Paths) : ReconCall(event)

CallSocket == \E event \in SocketEvents({1}, Fds) : ReconCall(event)

CallConnect == \E event \in ConnectEvents({1}, Fds) : ReconCall(event)

CallOther == \E event \in OtherEvents({1}) : ReconCall(event)

-----------------------------------------------------------------------------
(* StapParser.__iter__ and FilteredProcessLog.__iter__ as generators *)

\* a generator that reads on from wherever the file is, without rewinding it
ParserNext_norewind(started, pos) ==
    IF pos < Len(log)
    THEN [ok |-> TRUE, event |-> log[pos + 1], pos |-> pos + 1]
    ELSE [ok |-> FALSE, event |-> NoEvent, pos |-> pos]

\* the generator of StapParser.__iter__, resumed once: its first resumption
\* rewinds the file, every resumption asks the shared file object for a line
ParserNext(started, pos) ==
    LET at == IF started THEN pos ELSE 0
    IN  IF at < Len(log)
        THEN [ok |-> TRUE, event |-> log[at + 1], pos |-> at + 1]
        ELSE [ok |-> FALSE, event |-> NoEvent, pos |-> at]

\* del event[key]
Del(event, key) == [f \in (DOMAIN event) \ {key} |-> event[f]]

\* the generator of FilteredProcessLog.__iter__, resumed once with event ev in
\* hand and k of the filters already tried on it: the rest of the inner loop,
\* then the next events of the stream, up to the next yield, the end of the
\* stream or a KeyError
RECURSIVE ViewResume(_, _, _, _, _)
ViewResume(kwfilters, started, ev, k, pos) ==
    IF k < Len(kwfilters)
    THEN LET key == kwfilters[k + 1][1]
             v == kwfilters[k + 1][2]
         IN  IF key \notin DOMAIN ev
             THEN [st |-> "raised", event |-> ev, k |-> k, pos |-> pos,
                   out |-> <<>>]
             ELSE IF ev[key] # v
             THEN ViewResume(kwfilters, started, ev, k + 1, pos)
             ELSE IF "type" \notin DOMAIN ev
             THEN [st |-> "raised", event |-> ev, k |-> k, pos |-> pos,
                   out |-> <<>>]
             ELSE [st |-> "active", event |-> Del(ev, "type"), k |-> k + 1,
                   pos |-> pos, out |-> <<Del(ev, "type")>>]
    ELSE LET n == ParserNext(started, pos)
         IN  IF n.ok
             THEN ViewResume(kwfilters, TRUE, n.event, 0, n.pos)
             ELSE [st |-> "done", event |-> ev, k |-> k, pos |-> n.pos,
                   out |-> <<>>]

\* next() on a traversal t with the file at pos: a traversal is the generator
\* of a view, or the generator of the parser itself
TravNext(t, pos) ==
    IF t.kind = "view"
    THEN ViewResume(t.kwfilters, t.st # "new", t.event,
                    IF t.st = "new" THEN Len(t.kwfilters) ELSE t.k, pos)
    ELSE LET n == ParserNext(t.st # "new", pos)
         IN  [st |-> IF n.ok THEN "active" ELSE "done", event |-> n.event,
              k |-> 0, pos |-> n.pos,
              out |-> IF n.ok THEN <<n.event>> ELSE <<>>]

After(t, r) ==
    [t EXCEPT !.st = r.st, !.event = r.event, !.k = r.k, !.out = t.out \o r.out]

Finished(t) == t.st \in {"done", "raised"}

NewTraversal(kind, kwfilters) ==
    [kind |-> kind, kwfilters |-> kwfilters, st |-> "new", event |-> NoEvent,
     k |-> 0, out |-> <<>>]

\* what a traversal yields when nothing else touches the file: it is resumed
\* until it ends, on a file position of its own
RECURSIVE Drain(_, _)
Drain(t, pos) ==
    IF Finished(t) THEN t
    ELSE LET r == TravNext(t, pos) IN Drain(After(t, r), r.pos)

Alone(t) == Drain(NewTraversal(t.kind, t.kwfilters), 0)

\* one next() on traversal i
Advance(i) ==
    LET r == TravNext(trav[i], fdpos)
        j == 3 - i
    IN  /\ ~Finished(trav[i])
        /\ trav' = [trav EXCEPT ![i] = After(trav[i], r)]
        /\ fdpos' = r.pos
        /\ h_overlap' = (h_overlap \/ trav[j].st = "active")
        /\ UNCHANGED <<log, last, parseVars, reconVars, runVars, sigVars, restVars>>

AdvanceFirst == Advance(1)

AdvanceSecond == Advance(2)

LogEvents ==
    OpenEvents({1, 2}, {Numeral(3)}, ParsePaths) \cup FdEvents({1}, {Numeral(3)})

RECURSIVE SeqsUpTo(_, _)
SeqsUpTo(S, n) ==
    IF n = 0 THEN {<<>>}
    ELSE LET shorter == SeqsUpTo(S, n - 1)
         IN  shorter \cup {Append(q, x) : <<q, x>> \in shorter \X S}

\* the keyword filters a view is built with, in the order the dict lists them
FilterLists ==
    {<<>>, << <<"pid", 1>> >>, << <<"pid", 2>> >>,
     << <<"pid", 1>>, <<"api", "open">> >>,
     << <<"api", "open">>, <<"pid", 1>> >>}

Traversals ==
    {NewTraversal("view", f) : f \in FilterLists}
    \cup {NewTraversal("parser", <<>>)}

InitView ==
    /\ log \in SeqsUpTo(LogEvents, MaxLines)
    /\ fdpos = 0
    /\ trav \in [{1, 2} -> Traversals]
    /\ h_overlap = FALSE

IdleView ==
    /\ log = <<>>
    /\ fdpos = 0
    /\ trav = [i \in {1, 2} |-> NewTraversal("parser", <<>>)]
    /\ h_overlap = FALSE

NextView ==
    \/ AdvanceFirst
    \/ AdvanceSecond


InitParse ==
    /\ processes = <<>>
    /\ forkmap = EmptyMap
    /\ behavior = EmptyMap
    /\ yielded = <<>>
    /\ nevents = 0
    /\ h_forked = {}
    /\ h_after = {}
    /\ h_parent = EmptyMap
    /\ h_first = EmptyMap
    /\ h_execs = EmptyMap
    /\ h_pre = <<>>  \* no record

\* Python's None, and a value that is not None
None == <<>>

Some(v) == <<v>>

-----------------------------------------------------------------------------
(* SignatureFlags and Signature (lib/cuckoo/common/abstracts.py) *)

\* the dict SignatureFlags.set builds; pid, tid and timestamp may be None
Flag(name, pid, tid, timestamp) ==
    [name |-> name, pid |-> pid, tid |-> tid, timestamp |-> timestamp]

\* a set that appends without looking for an equal entry
flags_set_always(data, flag) == Append(data, flag)

\* SignatureFlags.set: self.data afterwards
flags_set(data, flag) ==
    IF \E i \in DOMAIN data : data[i] = flag THEN data ELSE Append(data, flag)

\* a <= b as Python 2 orders values: None is smaller than every number
PyLe(a, b) ==
    IF a = None THEN TRUE
    ELSE IF b = None THEN FALSE
    ELSE a[1] <= b[1]

\* SignatureFlags.find: each filter that is not None narrows the result
find(data, name, pid, tid, before, after) ==
    LET r1 == IF name # None
              THEN SelectSeq(data, LAMBDA item : Some(item.name) = name)
              ELSE data
        r2 == IF pid # None
              THEN SelectSeq(r1, LAMBDA item : item.pid = pid) ELSE r1
        r3 == IF tid # None
              THEN SelectSeq(r2, LAMBDA item : item.tid = tid) ELSE r2
        r4 == IF before # None
              THEN SelectSeq(r3, LAMBDA item : PyLe(item.timestamp, before))
              ELSE r3
        r5 == IF after # None
              THEN SelectSeq(r4, LAMBDA item : PyLe(after, item.timestamp))
              ELSE r4
    IN  r5

\* Signature.__init__; overrides tells whether the instance's class defines
\* on_call itself or inherits the one of Signature
NewSignature(overrides) ==
    [data |-> <<>>, flags |-> <<>>, pid |-> None, tid |-> None, cid |-> None,
     mark_start |-> None, mark_end |-> None, active |-> TRUE,
     overrides |-> overrides]

is_active(s) == s.active

\* a deactivate that flips the flag
deactivate_toggle(s) == [s EXCEPT !.active = ~s.active]

deactivate(s) == [s EXCEPT !.active = FALSE]

\* an activate that starts the signature afresh
activate_fresh(s) ==
    [s EXCEPT !.active = TRUE, !.mark_start = None, !.mark_end = None,
              !.data = <<>>]

activate(s) == [s EXCEPT !.active = TRUE]

\* the (pid, tid, cid) the signature is looking at
Position(s) == [pid |-> s.pid, tid |-> s.tid, cid |-> s.cid]

mark_start(s) == [s EXCEPT !.mark_start = Some(Position(s))]

mark_end(s) == [s EXCEPT !.mark_end = Some(Position(s))]

\* truth value of an attribute that is None or a dict
TruthyDict(d) == d # None /\ DOMAIN d[1] # {}

\* a _get_mark that reports a marker as soon as either mark is set
get_mark_either(s) ==
    IF TruthyDict(s.mark_start) \/ TruthyDict(s.mark_end)
    THEN Some([start |-> IF TruthyDict(s.mark_start) THEN s.mark_start[1]
                         ELSE EmptyMap,
               end |-> IF TruthyDict(s.mark_end) THEN s.mark_end[1]
                       ELSE EmptyMap])
    ELSE None

\* Signature._get_mark
get_mark(s) ==
    IF TruthyDict(s.mark_start)
    THEN Some([start |-> s.mark_start[1],
               end |-> IF TruthyDict(s.mark_end) THEN s.mark_end[1]
                       ELSE EmptyMap])
    ELSE None

\* a goto_on_call that calls on_call before it stores the call's position
goto_on_call_late(s, call) == s

\* Signature.goto_on_call up to its call of on_call
goto_on_call(s, call) ==
    [s EXCEPT !.pid = Some(call.pid), !.tid = Some(call.tid),
              !.cid = Some(call.cid)]

\* Python values handed to add_match: a text or a list of texts
PyStr(v) == [kind |-> "str", v |-> v]

PyList(items) == [kind |-> "list", items |-> items]

\* an add_match that adds one sign whatever the value is
add_match_single(s, process, type, match) ==
    LET process_summary ==
            IF TruthyDict(process)
            THEN Some([process_name |-> process[1].process_name,
                       process_id |-> process[1].process_id])
            ELSE None
    IN  [s EXCEPT !.data =
            Append(@, [process |-> process_summary,
                       signs |-> <<[type |-> type, value |-> match]>>])]

\* Signature.add_match
add_match(s, process, type, match) ==
    LET signs == IF match.kind = "list"
                 THEN [i \in 1..Len(match.items) |->
                          [type |-> type, value |-> match.items[i]]]
                 ELSE <<[type |-> type, value |-> match]>>
        process_summary ==
            IF TruthyDict(process)
            THEN Some([process_name |-> process[1].process_name,
                       process_id |-> process[1].process_id])
            ELSE None
    IN  [s EXCEPT !.data = Append(@, [process |-> process_summary,
                                      signs |-> signs])]

has_matches(s) == Len(s.data) > 0

\* Signature.as_result
as_result(s) ==
    [name |-> "", description |-> "", severity |-> 1, references |-> <<>>,
     data |-> s.data, marker |-> get_mark(s), alert |-> FALSE,
     families |-> <<>>]

\* what an operation hands back: a value (None included) or an exception
Returned(v) == [raised |-> "", value |-> v]

Raised(e) == [raised |-> e, value |-> None]

\* the hooks as Signature itself defines them: the instance afterwards and
\* what the call hands back
quickout(s) == [sig |-> s, ret |-> Raised("NotImplementedError")]

on_call(s) == [sig |-> s, ret |-> Raised("NotImplementedError")]

on_signature(s) == [sig |-> s, ret |-> Raised("NotImplementedError")]

on_process(s, pid) == [sig |-> s, ret |-> Returned(None)]

on_thread(s, pid, tid) == [sig |-> s, ret |-> Returned(None)]

\* an on_complete that reports a match
on_complete_matched(s) == [sig |-> s, ret |-> Returned(Some(TRUE))]

on_complete(s) == [sig |-> s, ret |-> Raised("NotImplementedError")]

Called(name, args) == [name |-> name, args |-> args]

NoHistory ==
    [inactive_call |-> FALSE, call |-> None, start |-> None, end |-> None,
     endfirst |-> FALSE, matches |-> <<>>]

InitSig(overrides) ==
    /\ sig = NewSignature(overrides)
    /\ incall = FALSE
    /\ op = Called("__init__", None)
    /\ sigret = Returned(None)
    /\ h_sig = NoHistory

\* an operation that changes nothing but self: the instance afterwards, the
\* name it goes by and what it returns
SigOp(name, args, s, r, h) ==
    /\ sig' = s
    /\ op' = Called(name, args)
    /\ sigret' = r
    /\ h_sig' = h
    /\ UNCHANGED <<parseVars, reconVars, viewVars, runVars, last, restVars>>

Deactivate ==
    SigOp("deactivate", None, deactivate(sig), Returned(None), h_sig)
    /\ UNCHANGED incall

Activate ==
    SigOp("activate", None, activate(sig), Returned(None), h_sig)
    /\ UNCHANGED incall

MarkStart ==
    SigOp("mark_start", None, mark_start(sig), Returned(None),
          [h_sig EXCEPT !.start = Some(h_sig.call),
                        !.endfirst = (h_sig.end # None)])
    /\ UNCHANGED incall

MarkEnd ==
    SigOp("mark_end", None, mark_end(sig), Returned(None),
          [h_sig EXCEPT !.end = Some(h_sig.call), !.endfirst = FALSE])
    /\ UNCHANGED incall

AsResult ==
    SigOp("as_result", None, sig, Returned(Some(as_result(sig))), h_sig)
    /\ UNCHANGED incall

\* the calls the dispatcher hands to goto_on_call: (pid, tid, cid)
Calls == {[pid |-> 1, tid |-> 1, cid |-> 0], [pid |-> 2, tid |-> 3, cid |-> 1]}

\* goto_on_call: on_call of Signature itself raises at once, an on_call of the
\* instance's own class runs until it returns
GotoOnCall ==
    \E call \in Calls :
        /\ ~incall
        /\ SigOp("goto_on_call", None, goto_on_call(sig, call),
                 IF sig.overrides THEN Returned(None)
                 ELSE on_call(goto_on_call(sig, call)).ret,
                 [h_sig EXCEPT !.call = Some(call),
                               !.inactive_call = (@ \/ ~is_active(sig))])
        /\ incall' = sig.overrides

\* a hook of Signature itself, called on an instance whose class defines none
BaseHook(name, r) ==
    /\ ~sig.overrides
    /\ SigOp(name, None, r.sig, r.ret, h_sig)
    /\ UNCHANGED incall

Quickout == BaseHook("quickout", quickout(sig))

OnCall == BaseHook("on_call", on_call(sig))

OnSignature == BaseHook("on_signature", on_signature(sig))

OnComplete == BaseHook("on_complete", on_complete(sig))

OnProcess == \E call \in Calls : BaseHook("on_process", on_process(sig, call.pid))

OnThread ==
    \E call \in Calls : BaseHook("on_thread", on_thread(sig, call.pid, call.tid))

OnCallReturns ==
    /\ incall
    /\ incall' = FALSE
    /\ SigOp("on_call", None, sig, Returned(None), h_sig)

MatchArgs ==
    {[process |-> None, type |-> "file", match |-> PyStr("x")],
     [process |-> Some([process_name |-> "sh", process_id |-> 1,
                        first_seen |-> 0]),
      type |-> "file", match |-> PyList(<<PyStr("x"), PyStr("y")>>)],
     [process |-> None, type |-> "file", match |-> PyList(<<>>)]}

AddMatch ==
    \E a \in MatchArgs :
        /\ Len(sig.data) < MaxMatches
        /\ SigOp("add_match", None, add_match(sig, a.process, a.type, a.match),
                 Returned(None),
                 [h_sig EXCEPT !.matches = Append(@, a)])
        /\ UNCHANGED incall

\* self.flags.set(...) with room for MaxFlags entries
FlagsSet(flag) ==
    /\ Len(flags_set(sig.flags, flag)) <= MaxFlags
    /\ SigOp("set", Some(flag), [sig EXCEPT !.flags = flags_set(@, flag)],
             Returned(None), h_sig)
    /\ UNCHANGED incall

\* self.flags.find(...)
FlagsFind(a) ==
    /\ SigOp("find", Some(a), sig,
             Returned(Some(find(sig.flags, a.name, a.pid, a.tid, a.before,
                                a.after))),
             h_sig)
    /\ UNCHANGED incall

FlagPositions == {[pid |-> None, tid |-> None], [pid |-> Some(0), tid |-> Some(1)]}

Flags ==
    {Flag(n, p.pid, p.tid, t) :
        <<n, p, t>> \in {"a", "b"} \X FlagPositions \X {None, Some(0), Some(1)}}

FindArgs ==
    [name : {None, Some("a")}, pid : {None, Some(0)}, tid : {None, Some(1)},
     before : {None, Some(0), Some(1)}, after : {None, Some(0), Some(1)}]

SetFlag == \E flag \in Flags : FlagsSet(flag)

FindFlags == \E a \in FindArgs : FlagsFind(a)

\* the one flag a signature sets in the runs that exercise everything else
SigSetFlag == FlagsSet(Flag("a", None, None, None))

-----------------------------------------------------------------------------
(* Two instances of Signature: what __init__ makes new for each *)

Instances == {"A", "B"}

\* an __init__ that takes the two lists from the class instead of making them
NewInstance_classlevel(k) ==
    [NewSignature(TRUE) EXCEPT !.data = 1, !.flags = 2]

\* Signature.__init__ for the k-th instance made: self.data = [] and
\* SignatureFlags() (its self.data = []) are list objects of their own
NewInstance(k) ==
    [NewSignature(TRUE) EXCEPT !.data = 2 * k - 1, !.flags = 2 * k]

\* the instance with its lists read through the references
Deref(h, i) == [i EXCEPT !.data = h[i.data], !.flags = h[i.flags]]

\* the heap after the instance referring to i's lists has become s
Store(h, i, s) ==
    [r \in DOMAIN h |-> IF r = i.flags THEN s.flags
                        ELSE IF r = i.data THEN s.data ELSE h[r]]

InitTwo ==
    /\ insts = [x \in Instances |-> NewInstance(IF x = "A" THEN 1 ELSE 2)]
    /\ heap = [r \in 1..4 |-> <<>>]

\* a method called on instance x, leaving it as s
On(x, name, s) ==
    /\ heap' = Store(heap, insts[x], s)
    /\ insts' = [insts EXCEPT ![x] = [s EXCEPT !.data = insts[x].data,
                                              !.flags = insts[x].flags]]
    /\ op' = Called(name, Some(x))
    /\ UNCHANGED <<sig, incall, sigret, h_sig>>
    /\ UNCHANGED <<parseVars, reconVars, viewVars, runVars, parserVars,
                   checkVars, machVars, last>>

Self(x) == Deref(heap, insts[x])

TwoDeactivate == \E x \in Instances : On(x, "deactivate", deactivate(Self(x)))

TwoActivate == \E x \in Instances : On(x, "activate", activate(Self(x)))

TwoMarkStart == \E x \in Instances : On(x, "mark_start", mark_start(Self(x)))

TwoMarkEnd == \E x \in Instances : On(x, "mark_end", mark_end(Self(x)))

TwoGotoOnCall ==
    \E x \in Instances :
        On(x, "goto_on_call",
           goto_on_call(Self(x), [pid |-> 1, tid |-> 1, cid |-> 0]))

TwoAddMatch ==
    \E x \in Instances :
        /\ Len(Self(x).data) < MaxMatches
        /\ On(x, "add_match", add_match(Self(x), None, "file", PyStr("x")))

TwoFlagsSet ==
    \E x \in Instances :
        On(x, "set", [Self(x) EXCEPT
                         !.flags = flags_set(@, Flag("a", None, None, None))])

NextTwo ==
    \/ TwoDeactivate
    \/ TwoActivate
    \/ TwoMarkStart
    \/ TwoMarkEnd
    \/ TwoGotoOnCall
    \/ TwoAddMatch
    \/ TwoFlagsSet

IdleParser ==
    /\ stapline = None
    /\ stapevent = None

IdleCheck ==
    /\ query = None
    /\ answer = Returned(None)

\* no operation of the machinery called yet
NoOperation ==
    [op |-> "", pc |-> "idle", want |-> {}, waitme |-> 0, polls |-> 0,
     current |-> "", entry |-> "", last |-> Returned(None), open |-> 0,
     reverted |-> FALSE, destroyed |-> FALSE, env |-> "",
     ret |-> Returned(None)]

IdleMach ==
    /\ mach = NoOperation
    /\ timeout = 1

InitRest ==
    /\ InitTwo
    /\ IdleParser
    /\ IdleCheck
    /\ IdleMach

InitRun ==
    /\ matched = FALSE
    /\ runres = [called |-> FALSE, value |-> None]
    /\ h_accepted = FALSE
    /\ h_before = [processes |-> <<>>, accepted |-> FALSE]

InitRecon ==
    /\ recon = NewReconstructor
    /\ ret = <<>>
    /\ h_open = EmptyMap
    /\ h_tracked = {}
    /\ h_closed = {}
    /\ h_opened = {}
    /\ h_prev = [recon |-> NewReconstructor, open |-> EmptyMap,
                 tracked |-> {}, closed |-> {}]

Init ==
    /\ InitParse
    /\ InitRecon
    /\ InitRun
    /\ InitSig(FALSE)
    /\ InitRest
    /\ IdleView
    /\ last = NoEvent

NextRecon ==
    \/ CallOpen
    \/ CallFd
    \/ CallStat
    \/ CallSocket
    \/ CallConnect
    \/ CallOther

SpecRecon == Init /\ [][NextRecon]_vars

InitTraversals ==
    /\ InitParse
    /\ InitRecon
    /\ InitRun
    /\ InitSig(FALSE)
    /\ InitRest
    /\ InitView
    /\ last = NoEvent

SpecView == InitTraversals /\ [][NextView]_vars

\* parse iterating the parser (traversal 1) and the view parse stored in a
\* process record, FilteredProcessLog(parser, pid=pid), (traversal 2)
InitPass ==
    /\ InitParse
    /\ InitRecon
    /\ InitRun
    /\ InitSig(FALSE)
    /\ InitRest
    /\ last = NoEvent
    /\ log \in SeqsUpTo(LogEvents, MaxLines)
    /\ fdpos = 0
    /\ \E pid \in {1, 2} :
          trav = <<NewTraversal("parser", <<>>),
                   NewTraversal("view", << <<"pid", pid>> >>)>>
    /\ h_overlap = FALSE

\* the loop of parse asks the parser for its next event
PassNext == Advance(1)

\* somebody asks the view of a record for its next call; the record exists
\* once parse has taken an event of its pid from the parser
TraverseCalls ==
    /\ \E i \in 1..Len(trav[1].out) : trav[1].out[i].pid = trav[2].kwfilters[1][2]
    /\ Advance(2)

NextPass ==
    \/ PassNext
    \/ TraverseCalls

SpecPass == InitPass /\ [][NextPass]_vars

NextFlags ==
    \/ SetFlag
    \/ FindFlags

SpecFlags == Init /\ [][NextFlags]_vars

\* a signature of Signature itself or of a class with an on_call of its own
InitSignature ==
    /\ InitParse
    /\ InitRecon
    /\ InitRun
    /\ IdleView
    /\ last = NoEvent
    /\ \E overrides \in BOOLEAN : InitSig(overrides)
    /\ InitRest

NextSig ==
    \/ Deactivate
    \/ Activate
    \/ GotoOnCall
    \/ OnCallReturns
    \/ MarkStart
    \/ MarkEnd
    \/ AddMatch
    \/ SigSetFlag
    \/ AsResult
    \/ Quickout
    \/ OnCall
    \/ OnSignature
    \/ OnComplete
    \/ OnProcess
    \/ OnThread

SpecSig == InitSignature /\ [][NextSig]_vars

SpecTwo == Init /\ [][NextTwo]_vars

-----------------------------------------------------------------------------
(* LinuxSystemTap: the reconstruction pass *)

\* a pre_hook that stores parent -> child instead of child -> parent
pre_hook_swapped(fm, syscall) ==
    IF syscall.api = "clone" \/ syscall.api = "fork"
    THEN Put(fm, syscall.pid, int(syscall.return_value))
    ELSE fm

pre_hook(fm, syscall) ==
    IF syscall.api = "clone" \/ syscall.api = "fork"
    THEN Put(fm, int(syscall.return_value), syscall.pid)
    ELSE fm

\* a skip test that looks among the parents instead of the children
Skipped_byvalue(fm, pid) == ~ \E c \in DOMAIN fm : fm[c] = pid

\* "if pid not in self.forkmap: continue"
Skipped(fm, pid) == pid \notin DOMAIN fm

\* an is_newpid that takes every pid for a new one
is_newpid_always(procs, pid) == TRUE

is_newpid(procs, pid) == ~ \E i \in DOMAIN procs : procs[i].pid = pid

\* the index of the record get_proc returns: the first one with this pid
get_proc(procs, pid) ==
    CHOOSE i \in DOMAIN procs :
        procs[i].pid = pid /\ \A j \in 1..(i - 1) : procs[j].pid # pid

\* the record parse appends; "calls" is the FilteredProcessLog(parser, pid=pid)
NewProcess(fm, syscall) ==
    [type |-> "process",
     pid |-> syscall.pid,
     ppid |-> IF syscall.pid \in DOMAIN fm THEN fm[syscall.pid] ELSE 0 - 1,
     process_name |-> syscall.process_name,
     first_seen |-> syscall.time,
     command_line |-> <<>>,
     calls |-> [pid |-> syscall.pid]]

\* post_hook: the process list afterwards, and the record it returns (if any)
post_hook(procs, syscall) ==
    IF syscall.api = "execve"
    THEN LET i == get_proc(procs, syscall.pid)
         IN  IF ~Truthy(syscall.return_value) /\ ~Truthy(procs[i].command_line)
             THEN LET upd == [procs[i] EXCEPT
                                !.process_name = basename(syscall.arguments.p0),
                                !.command_line = join(syscall.arguments.p1)]
                  IN  [processes |-> [procs EXCEPT ![i] = upd], out |-> <<upd>>]
             ELSE [processes |-> procs, out |-> <<>>]
    ELSE [processes |-> procs, out |-> <<>>]

Generic(pid, facts) ==
    [k \in DOMAIN facts |->
        [type |-> "generic", pid |-> pid,
         category |-> facts[k][1], value |-> facts[k][2]]]

\* one turn of the loop of parse: everything it does for one event of the trace
ParseStep(ev) ==
    LET fm == pre_hook(forkmap, ev)
        pid == ev.pid
        new == is_newpid(processes, pid)
        procs1 == IF new THEN Append(processes, NewProcess(fm, ev))
                  ELSE processes
        beh1 == IF new THEN Put(behavior, pid, NewReconstructor) ELSE behavior
        r == process_apicall(beh1[pid], ev)
        ph == post_hook(procs1, ev)
        isfork == ev.api \in {"clone", "fork"}
        hp == IF isfork THEN Put(h_parent, int(ev.return_value), pid)
              ELSE h_parent
    IN  /\ nevents < MaxEvents
        /\ nevents' = nevents + 1
        /\ last' = ev
        /\ forkmap' = fm
        /\ IF Skipped(fm, pid)
           THEN /\ UNCHANGED <<processes, behavior, h_execs>>
                /\ yielded' = <<>>
                /\ h_pre' = <<>>
           ELSE /\ processes' = ph.processes
                /\ behavior' = [beh1 EXCEPT ![pid] = StateOf(r)]
                /\ yielded' = Generic(pid, r.out) \o ph.out
                /\ h_pre' = <<procs1[get_proc(procs1, pid)]>>
                /\ h_execs' = IF ph.out = <<>> THEN h_execs
                              ELSE Put(h_execs, pid,
                                       IF pid \in DOMAIN h_execs
                                       THEN h_execs[pid] + 1 ELSE 1)
        /\ h_forked' = IF isfork
                       THEN h_forked \cup {<<pid, int(ev.return_value)>>}
                       ELSE h_forked
        /\ h_after' = h_after \cup {pc \in h_forked : pc[2] = pid}
        /\ h_parent' = hp
        /\ h_first' = IF pid \in DOMAIN hp /\ pid \notin DOMAIN h_first
                      THEN Put(h_first, pid, hp[pid]) ELSE h_first
        /\ UNCHANGED <<reconVars, viewVars, runVars, sigVars, restVars>>

\* the timestamp of a line is taken to be its position in the trace
At(t, ev) == [ev EXCEPT !.time = t]

ParseFork == \E ev \in ForkEvents(Pids) : ParseStep(At(nevents + 1, ev))

ParseExecve == \E ev \in ExecveEvents(Pids) : ParseStep(At(nevents + 1, ev))

ParseApicall ==
    \E ev \in OpenEvents(Pids, ParseFds, ParsePaths) \cup FdEvents(Pids, ParseFds)
              \cup StatEvents(Pids, ParsePaths) \cup SocketEvents(Pids, ParseFds)
              \cup ConnectEvents(Pids, ParseFds) \cup OtherEvents(Pids) :
        ParseStep(At(nevents + 1, ev))

Next ==
    \/ ParseFork
    \/ ParseExecve
    \/ ParseApicall

Spec == Init /\ [][Next]_vars

\* the pass after its first line, on which the analyzer (pid 1, never in the
\* fork map itself) forked the first analysed process, pid 2
FirstFork == At(0, Event(0, 1, "fork", EmptyMap, Numeral(2)))

InitTracked ==
    /\ InitRecon
    /\ InitRun
    /\ InitSig(FALSE)
    /\ InitRest
    /\ IdleView
    /\ last = FirstFork
    /\ processes = <<>>
    /\ forkmap = pre_hook(EmptyMap, FirstFork)
    /\ behavior = EmptyMap
    /\ yielded = <<>>
    /\ nevents = 0
    /\ h_forked = {<<1, 2>>}
    /\ h_after = {}
    /\ h_parent = Put(EmptyMap, 2, 1)
    /\ h_first = EmptyMap
    /\ h_execs = EmptyMap
    /\ h_pre = <<>>

SpecTracked == InitTracked /\ [][Next]_vars

-----------------------------------------------------------------------------
(* LinuxSystemTap: handles_path and run *)

\* str.endswith
endswith(text, suffix) ==
    /\ Len(suffix) <= Len(text)
    /\ SubSeq(text, Len(text) - Len(suffix) + 1, Len(text)) = suffix

StapSuffix == <<".", "s", "t", "a", "p">>

\* a handles_path that accepts every path holding .stap somewhere
handles_path_anywhere(m, path) ==
    IF \E i \in 1..Len(path) : endswith(SubSeq(path, 1, i), StapSuffix)
    THEN [matched |-> TRUE, ret |-> Some(TRUE)]
    ELSE [matched |-> m, ret |-> None]

\* self.matched after handles_path(path), and what the call returns
handles_path(m, path) ==
    IF endswith(path, StapSuffix)
    THEN [matched |-> TRUE, ret |-> Some(TRUE)]
    ELSE [matched |-> m, ret |-> None]

\* list.sort(key=first_seen) is stable: a record goes behind every record
\* whose key is not greater
RECURSIVE Insert(_, _)
Insert(sorted, process) ==
    IF sorted = <<>> THEN <<process>>
    ELSE IF Head(sorted).first_seen <= process.first_seen
    THEN <<Head(sorted)>> \o Insert(Tail(sorted), process)
    ELSE <<process>> \o sorted

RECURSIVE sort(_)
sort(procs) ==
    IF procs = <<>> THEN <<>>
    ELSE Insert(sort(SubSeq(procs, 1, Len(procs) - 1)), procs[Len(procs)])

\* a run that returns the list in the order the pass left it
run_unsorted(m, procs) ==
    IF ~m THEN [processes |-> procs, ret |-> None]
    ELSE [processes |-> procs, ret |-> Some(procs)]

\* run(): self.processes afterwards (sorted in place) and the value returned
run(m, procs) ==
    IF ~m THEN [processes |-> procs, ret |-> None]
    ELSE [processes |-> sort(procs), ret |-> Some(sort(procs))]

StapPaths == {StapSuffix, <<"a">> \o StapSuffix}

OtherPaths ==
    {<<>>, <<"s", "t", "a", "p">>, <<"a", ".", "b", "s", "o", "n">>,
     <<"a">> \o StapSuffix \o <<".", "1">>}

HandlesPath ==
    \E path \in StapPaths \cup OtherPaths :
        /\ matched' = handles_path(matched, path).matched
        /\ h_accepted' = (h_accepted \/ path \in StapPaths)
        /\ UNCHANGED <<runres, h_before>>
        /\ UNCHANGED <<parseVars, reconVars, viewVars, sigVars, last, restVars>>

Times == 0..MaxTime

RunPids == {1, 2, 3}

RunEvents ==
    {ev \in ForkEvents(RunPids) :
        ev.api = "clone" /\ int(ev.return_value) \in RunPids}
    \cup OtherEvents(RunPids)

\* a line of the trace, with whatever timestamp it carries, before run
ParseLine ==
    /\ ~runres.called
    /\ \E ev \in RunEvents, t \in Times : ParseStep(At(t, ev))

Run ==
    LET r == run(matched, processes)
    IN  /\ processes' = r.processes
        /\ runres' = [called |-> TRUE, value |-> r.ret]
        /\ h_before' = [processes |-> processes, accepted |-> h_accepted]
        /\ UNCHANGED <<matched, h_accepted>>
        /\ UNCHANGED <<forkmap, behavior, yielded, nevents, h_forked, h_after,
                       h_parent, h_first, h_execs, h_pre>>
        /\ UNCHANGED <<reconVars, viewVars, sigVars, last, restVars>>

NextRun ==
    \/ HandlesPath
    \/ ParseLine
    \/ Run

SpecRun == Init /\ [][NextRun]_vars

-----------------------------------------------------------------------------
(* StapParser: decoding the argument blob of a line *)

\* str.startswith, str.lstrip, str.rstrip, str.strip (chars is a set)
startswith(text, prefix) ==
    /\ Len(prefix) <= Len(text)
    /\ SubSeq(text, 1, Len(prefix)) = prefix

RECURSIVE lstrip(_, _)
lstrip(text, chars) ==
    IF text # <<>> /\ Head(text) \in chars THEN lstrip(Tail(text), chars)
    ELSE text

RECURSIVE rstrip(_, _)
rstrip(text, chars) ==
    IF text # <<>> /\ text[Len(text)] \in chars
    THEN rstrip(SubSeq(text, 1, Len(text) - 1), chars)
    ELSE text

strip(text, chars) == lstrip(rstrip(text, chars), chars)

\* str.find: where delim first occurs in text, 0 when it does not
FindFirst(text, delim) ==
    LET at == {i \in 1..(Len(text) - Len(delim) + 1) :
                  SubSeq(text, i, i + Len(delim) - 1) = delim}
    IN  IF at = {} THEN 0 ELSE CHOOSE i \in at : \A j \in at : i <= j

\* str.partition: <<before, separator, after>> at the first occurrence
partition(text, delim) ==
    LET i == FindFirst(text, delim)
    IN  IF i = 0 THEN <<text, <<>>, <<>>>>
        ELSE <<SubSeq(text, 1, i - 1), delim,
               SubSeq(text, i + Len(delim), Len(text))>>

\* str.split(sep)
RECURSIVE split(_, _)
split(text, sep) ==
    LET i == FindFirst(text, sep)
    IN  IF i = 0 THEN <<text>>
        ELSE <<SubSeq(text, 1, i - 1)>>
             \o split(SubSeq(text, i + Len(sep), Len(text)), sep)

CommaSpace == <<",", " ">>

\* "p%u" % n_args
PName(n) ==
    <<"p0", "p1", "p2", "p3", "p4", "p5", "p6", "p7", "p8", "p9", "p10",
      "p11", "p12", "p13", "p14", "p15">>[n + 1]

\* decoded arguments are PyStr(text), PyList(items) or PyDict(d), d a
\* function from the key texts
PyDict(d) == [kind |-> "dict", d |-> d]

\* truth value of a decoded argument
TruthyValue(v) ==
    CASE v.kind = "list" -> v.items # <<>>
      [] v.kind = "dict" -> DOMAIN v.d # {}
      [] OTHER -> v.v # <<>>

is_array(arg) ==
    startswith(arg, <<"[">>) /\ ~startswith(arg, <<"[", "/", "*">>)

is_struct(arg) == startswith(arg, <<"{">>)

is_string(arg) == startswith(arg, <<"\"">>) /\ endswith(arg, <<"\"">>)

get_delim(argstr) ==
    IF is_array(argstr) THEN <<"]">>
    ELSE IF is_struct(argstr) THEN <<"}">>
    ELSE CommaSpace

\* str.decode("string_escape"), for the escapes \\, \" and \n
RECURSIVE string_escape(_)
string_escape(text) ==
    IF text = <<>> THEN <<>>
    ELSE IF Head(text) = "\\" /\ Len(text) >= 2 /\ text[2] \in {"\\", "\"", "n"}
    THEN <<IF text[2] = "n" THEN "\n" ELSE text[2]>>
         \o string_escape(SubSeq(text, 3, Len(text)))
    ELSE <<Head(text)>> \o string_escape(Tail(text))

parse_string(argstr) == PyStr(string_escape(strip(argstr, {"\""})))

RECURSIVE parse_arg(_)
RECURSIVE parse_array(_)
RECURSIVE parse_struct_loop(_, _)

parse_array(argstr) ==
    LET parts == split(lstrip(argstr, {"["}), CommaSpace)
    IN  PyList([i \in 1..Len(parts) |-> parse_arg(parts[i])])

\* the while loop of parse_struct
parse_struct_loop(arg, parsed) ==
    IF arg = <<>> THEN parsed
    ELSE LET kp == partition(arg, <<"=">>)
             d == get_delim(kp[3])
             delim == IF d # CommaSpace THEN d \o CommaSpace ELSE d
             vp == partition(kp[3], delim)
         IN  parse_struct_loop(vp[3], Put(parsed, kp[1], parse_arg(vp[1])))

parse_struct(argstr) ==
    IF FindFirst(argstr, <<"=">>) = 0
    THEN parse_array(lstrip(argstr, {"{"}))
    ELSE PyDict(parse_struct_loop(lstrip(argstr, {"{"}), EmptyMap))

parse_arg(argstr) ==
    IF is_array(argstr) THEN parse_array(argstr)
    ELSE IF is_struct(argstr) THEN parse_struct(argstr)
    ELSE IF is_string(argstr) THEN parse_string(argstr)
    ELSE PyStr(argstr)

\* the while loop of parse_args
RECURSIVE parse_args_loop(_, _, _)
parse_args_loop(args, p_args, n_args) ==
    IF args = <<>> THEN p_args
    ELSE LET a == lstrip(args, {",", " "})
             pt == partition(a, get_delim(a))
         IN  parse_args_loop(pt[3], Put(p_args, PName(n_args), parse_arg(pt[1])),
                             n_args + 1)

parse_args(args) == parse_args_loop(args, EmptyMap, 0)

-----------------------------------------------------------------------------
(* StapParser: the event of a line and its post_parse_<api> hook *)

\* a dict literal: a key written twice keeps the value written last
RECURSIVE dict(_)
dict(pairs) ==
    IF pairs = <<>> THEN EmptyMap
    ELSE Put(dict(SubSeq(pairs, 1, Len(pairs) - 1)),
             pairs[Len(pairs)][1], pairs[Len(pairs)][2])

RECURSIVE rename_keys(_, _, _)
rename_keys(args, mapping, keys) ==
    IF keys = {} THEN args
    ELSE LET key == CHOOSE k \in keys : TRUE
             renamed ==
                 IF key \in DOMAIN args /\ TruthyValue(args[key])
                 THEN Pop(Put(args, mapping[key], args[key]), key)
                 ELSE args
         IN  rename_keys(renamed, mapping, keys \ {key})

\* rename_args: for key, newKey in mapping.items(): if args.get(key): ...
rename_args(args, mapping) == rename_keys(args, mapping, DOMAIN mapping)

Hooked(ev, category, pairs) ==
    [ev EXCEPT !.category = category,
               !.arguments = rename_args(@, dict(pairs))]

post_parse_rt_sigaction(ev) ==
    [ev EXCEPT !.arguments =
        rename_args(@, dict(<< <<"p0", "signal">>, <<"p1", "act">>,
                               <<"p2", "oldact">> >>))]

post_parse_default_file(ev) ==
    Hooked(ev, "file",
           << <<"p0", "path">>, <<"p1", "mode">>, <<"p2", "flags">> >>)

post_parse_chown(ev) ==
    Hooked(ev, "file",
           << <<"p0", "path">>, <<"p1", "owner">>, <<"p2", "group">> >>)

post_parse_write(ev) ==
    Hooked(ev, "file",
           << <<"p0", "fd">>, <<"p1", "buffer">>, <<"p2", "count">> >>)

\* a socket hook that names a category of its own
post_parse_socket_own(ev) ==
    Hooked(ev, "socket",
           << <<"p0", "domain">>, <<"p1", "type">>, <<"p2", "protocol">> >>)

post_parse_socket(ev) ==
    Hooked(ev, "network",
           << <<"p0", "domain">>, <<"p1", "type">>, <<"p2", "protocol">> >>)

post_parse_getsockopt(ev) ==
    Hooked(ev, "network",
           << <<"p0", "sockfd">>, <<"p1", "level">>, <<"p2", "optname">>,
              <<"p3", "optval">>, <<"p3", "optlen">> >>)

post_parse_accept(ev) ==
    Hooked(ev, "network",
           << <<"p0", "sockfd">>, <<"p1", "addr">>, <<"p2", "addrlen">>,
              <<"p3", "flags">> >>)

\* the names fn for which the class has an attribute post_parse_<fn>
DispatchEntries ==
    {"rt_sigaction", "default_file", "open", "creat", "chmode", "chdir",
     "stat", "chown", "write", "read", "close", "socket", "getsockopt",
     "setsockopt", "accept", "accept4", "connect", "bind", "getsockname",
     "getpeername"}

\* getattr(self, "post_parse_%s" % fn, lambda event: None)(event)
post_parse(ev) ==
    CASE ev.api = "rt_sigaction" -> post_parse_rt_sigaction(ev)
      [] ev.api \in {"default_file", "open", "creat", "chmode", "chdir", "stat"}
         -> post_parse_default_file(ev)
      [] ev.api = "chown" -> post_parse_chown(ev)
      [] ev.api \in {"write", "read", "close"} -> post_parse_write(ev)
      [] ev.api = "socket" -> post_parse_socket(ev)
      [] ev.api \in {"getsockopt", "setsockopt"} -> post_parse_getsockopt(ev)
      [] ev.api \in {"accept", "accept4", "connect", "bind", "getsockname",
                     "getpeername"} -> post_parse_accept(ev)
      [] OTHER -> ev

\* the event __iter__ yields for a line with API name fn and argument blob args
StapEvent(fn, args) ==
    post_parse([Event(0, 1, fn, parse_args(args), Numeral(3))
                   EXCEPT !.category = "default"])

\* what is written in a blob: tokens, quoted strings, arrays and structs
Tok(text) == [kind |-> "token", text |-> text]

Quoted(text) == [kind |-> "quoted", text |-> text]

Arr(items) == [kind |-> "array", items |-> items]

Struct(fields) == [kind |-> "struct", fields |-> fields]

RECURSIVE Encode(_)
RECURSIVE EncodeList(_)
RECURSIVE EncodeFields(_)

\* the text of a blob element as the tracer prints it
Encode(t) ==
    CASE t.kind = "token" -> t.text
      [] t.kind = "quoted" -> <<"\"">> \o t.text \o <<"\"">>
      [] t.kind = "array" -> <<"[">> \o EncodeList(t.items) \o <<"]">>
      [] t.kind = "struct" -> <<"{">> \o EncodeFields(t.fields) \o <<"}">>

EncodeList(items) ==
    IF items = <<>> THEN <<>>
    ELSE IF Len(items) = 1 THEN Encode(items[1])
    ELSE Encode(items[1]) \o CommaSpace \o EncodeList(Tail(items))

EncodeFields(fields) ==
    IF fields = <<>> THEN <<>>
    ELSE fields[1][1] \o <<"=">> \o Encode(fields[1][2])
         \o (IF Len(fields) = 1 THEN <<>>
             ELSE CommaSpace \o EncodeFields(Tail(fields)))

A == Tok(<<"a">>)

Key(i) == << <<"k">>, <<"j">>, <<"i">>, <<"h">> >>[i]

\* w elements, all the token a but for child, which comes first or last
Row(child, w, first) ==
    [i \in 1..w |-> IF (first /\ i = 1) \/ (~first /\ i = w) THEN child ELSE A]

\* elements nested up to depth d
RECURSIVE Nested(_)
Nested(d) ==
    IF d = 0 THEN {A}
    ELSE LET inner == Nested(d - 1)
             rows == {Row(c, w, f) :
                         <<c, w, f>> \in inner \X (1..MaxWidth) \X BOOLEAN}
         IN  inner \cup {Arr(r) : r \in rows}
                   \cup {Struct([i \in 1..Len(r) |-> <<Key(i), r[i]>>]) :
                            r \in rows}

One == Tok(<<"1">>)

NestedArgs ==
    UNION {{<<t>>, <<One, t>>, <<t, One>>} : t \in Nested(3)}

FlatArgs ==
    {<<>>,
     <<Quoted(<<"/", "a">>)>>,
     <<Quoted(<<"/", "a">>), One>>,
     <<Quoted(<<"/", "a">>), One, Tok(<<"2">>)>>,
     <<Tok(<<"3">>), One, Tok(<<"2">>), Tok(<<"4">>)>>,
     <<Tok(<<"3">>), One, Tok(<<"2">>), Tok(<<"4">>), Tok(<<"5">>)>>,
     <<Quoted(<<>>), Tok(<<"0">>)>>}

ApiNames ==
    {"open", "creat", "chmod", "chmode", "chdir", "stat", "chown", "write",
     "close", "socket", "getsockopt", "setsockopt", "accept", "connect",
     "rt_sigaction", "default_file", "getpid", "ioctl", ""}

\* a trace line: its API name, what its blob was written from, and the blob
Line(fn, written) ==
    [api |-> fn, written |-> written, args |-> EncodeList(written)]

Lines ==
    {Line(fn, w) : <<fn, w>> \in ApiNames \X FlatArgs}
    \cup {Line("ioctl", w) : w \in NestedArgs}

\* the argument each handler of BehaviorReconstructor looks up
HandlerReads ==
    dict(<< <<"open", "path">>, <<"write", "fd">>, <<"read", "fd">>,
            <<"close", "fd">>, <<"stat", "path">>, <<"connect", "addr">>,
            <<"socket", "type">> >>)

\* the event as the reconstructor reads it: a text argument is the text itself
Plain(ev) ==
    [ev EXCEPT !.arguments =
        [k \in DOMAIN @ |-> IF @[k].kind = "str" THEN @[k].v ELSE @[k]]]

\* descriptor maps a reconstructor may hold when an event reaches it
ReconStates ==
    {NewReconstructor,
     [files |-> Put(EmptyMap, Numeral(3), <<"/", "a">>),
      sockets |-> Put(EmptyMap, Numeral(4), EmptyMap)]}

InitParser ==
    /\ InitParse
    /\ InitRun
    /\ IdleView
    /\ InitSig(FALSE)
    /\ InitTwo
    /\ IdleCheck
    /\ IdleMach
    /\ last = NoEvent
    /\ stapline \in {Some(l) : l \in Lines}
    /\ stapevent = None
    /\ recon \in ReconStates
    /\ ret = <<>>
    /\ h_open = EmptyMap
    /\ h_tracked = {}
    /\ h_closed = {}
    /\ h_opened = {}
    /\ h_prev = [recon |-> NewReconstructor, open |-> EmptyMap,
                 tracked |-> {}, closed |-> {}]

\* the parser yields the event of the line
Decode ==
    /\ stapline # None
    /\ stapevent = None
    /\ stapevent' = Some(StapEvent(stapline[1].api, stapline[1].args))
    /\ UNCHANGED <<stapline, recon, ret, last>>
    /\ UNCHANGED <<h_open, h_tracked, h_closed, h_opened, h_prev>>
    /\ UNCHANGED <<parseVars, viewVars, runVars, sigVars, twoVars, checkVars,
                   machVars>>

\* the event reaches a BehaviorReconstructor (when its handler finds the
\* argument it looks up, a text)
Reconstruct ==
    /\ stapline # None
    /\ stapevent # None
    /\ stapevent[1].api \in DOMAIN HandlerReads
       => LET key == HandlerReads[stapevent[1].api]
          IN  /\ key \in DOMAIN stapevent[1].arguments
              /\ stapevent[1].arguments[key].kind = "str"
    /\ LET r == process_apicall(recon, Plain(stapevent[1]))
       IN  /\ recon' = StateOf(r)
           /\ ret' = r.out
    /\ stapline' = None
    /\ UNCHANGED <<stapevent, last>>
    /\ UNCHANGED <<h_open, h_tracked, h_closed, h_opened, h_prev>>
    /\ UNCHANGED <<parseVars, viewVars, runVars, sigVars, twoVars, checkVars,
                   machVars>>

NextParser ==
    \/ Decode
    \/ Reconstruct

SpecParser == InitParser /\ [][NextParser]_vars

-----------------------------------------------------------------------------
(* Signature._check_value and check_argument_call
   (lib/cuckoo/common/abstracts.py), with a literal pattern *)

\* Python values a check compares: str and unicode texts, lists, False
PyUnicode(v) == [kind |-> "unicode", v |-> v]

PyFalse == [kind |-> "bool", v |-> <<"False">>]

\* x == y in Python 2: a str and a unicode of the same characters are equal
PyEq(x, y) ==
    IF x.kind \in {"str", "unicode"} /\ y.kind \in {"str", "unicode"}
    THEN x.v = y.v
    ELSE x = y

\* truth value of what a call returned (None, or a value)
TruthyResult(r) ==
    /\ r # None
    /\ CASE r[1].kind = "bool" -> r[1] # PyFalse
         [] OTHER -> TruthyValue(r[1])

\* for item in subject: if item == pattern: return item
RECURSIVE first_equal(_, _)
first_equal(items, pattern) ==
    IF items = <<>> THEN None
    ELSE IF PyEq(items[1], pattern) THEN Some(items[1])
    ELSE first_equal(Tail(items), pattern)

\* a scan that keeps the last equal item
RECURSIVE last_equal(_, _)
last_equal(items, pattern) ==
    IF items = <<>> THEN None
    ELSE IF PyEq(items[Len(items)], pattern) THEN Some(items[Len(items)])
    ELSE last_equal(SubSeq(items, 1, Len(items) - 1), pattern)

check_value_last(pattern, subject) ==
    [subject |-> subject,
     ret |-> IF subject.kind = "list" THEN last_equal(subject.items, pattern)
             ELSE IF PyEq(subject, pattern) THEN Some(subject)
             ELSE None]

\* _check_value(pattern, subject, regex=False): the subject afterwards and
\* what is returned
check_value(pattern, subject) ==
    [subject |-> subject,
     ret |-> IF subject.kind = "list" THEN first_equal(subject.items, pattern)
             ELSE IF PyEq(subject, pattern) THEN Some(subject)
             ELSE None]

\* call.get("category")
get_category(call) ==
    IF "category" \in DOMAIN call THEN Some(call.category) ELSE None

\* `if name:` and the like: the filter is given and is not the empty string
Given(filter) == filter # None /\ filter[1] # ""

\* check_argument_call(call, pattern, name, api, category): call["arguments"]
\* maps argument names to values, the loop variable is a name, and
\* argument["value"] indexes that name with a string, a TypeError, whichever
\* matching argument the dict yields first
check_argument_call(call, pattern, name, api, category) ==
    IF Given(api) /\ call.api # api[1] THEN Returned(Some(PyFalse))
    ELSE IF Given(category) /\ get_category(call) # category
    THEN Returned(Some(PyFalse))
    ELSE IF \E argument \in DOMAIN call.arguments :
                /\ Given(name) => argument = name[1]
                /\ TruthyResult(check_value(pattern, call.arguments[argument]).ret)
    THEN Raised("TypeError")
    ELSE Returned(Some(PyFalse))

TextA == <<"a">>

TextB == <<"b">>

Scalars == {PyStr(TextA), PyUnicode(TextA), PyStr(TextB), PyStr(<<>>)}

Subjects == Scalars \cup {PyList(items) : items \in SeqsUpTo(Scalars, MaxItems)}

Patterns == {PyStr(TextA), PyUnicode(TextA), PyStr(<<>>)}

ArgValues ==
    {PyStr(TextA), PyStr(TextB), PyStr(<<>>),
     PyList(<<PyStr(TextB), PyStr(TextA)>>)}

ArgDicts ==
    {[path |-> v] : v \in ArgValues}
    \cup {[path |-> v, mode |-> w] : <<v, w>> \in ArgValues \X ArgValues}

CheckCalls ==
    {[api |-> a, category |-> "file", arguments |-> d] :
        <<a, d>> \in {"open", "stat"} \X ArgDicts}
    \cup {[api |-> "open", arguments |-> d] : d \in ArgDicts}

NameFilters == {None, Some("path"), Some("mode"), Some("")}

ApiFilters == {None, Some("open")}

CategoryFilters == {None, Some("file"), Some("network")}

\* the calls a signature may make, not yet made
Queries ==
    {[fn |-> "_check_value", pending |-> TRUE, pattern |-> pattern,
      subject |-> subject, after |-> subject] :
        <<pattern, subject>> \in Patterns \X Subjects}
    \cup {[fn |-> "check_argument_call", pending |-> TRUE, call |-> call,
           pattern |-> pattern, name |-> name, api |-> api,
           category |-> category] :
             <<call, pattern, name, api, category>> \in
                 CheckCalls \X Patterns \X NameFilters \X ApiFilters
                     \X CategoryFilters}

InitCheck ==
    /\ InitParse
    /\ InitRecon
    /\ InitRun
    /\ IdleView
    /\ InitSig(FALSE)
    /\ InitTwo
    /\ IdleParser
    /\ IdleMach
    /\ last = NoEvent
    /\ query \in {Some(q) : q \in Queries}
    /\ answer = Returned(None)

\* self._check_value(pattern, subject)
CheckValue ==
    /\ query[1].fn = "_check_value"
    /\ query[1].pending
    /\ LET r == check_value(query[1].pattern, query[1].subject)
       IN  /\ query' = Some([query[1] EXCEPT !.pending = FALSE,
                                             !.after = r.subject])
           /\ answer' = Returned(r.ret)
    /\ UNCHANGED <<parseVars, reconVars, viewVars, runVars, sigVars,
                   twoVars, parserVars, machVars, last>>

\* self.check_argument_call(call, pattern, name, api, category)
CheckArgumentCall ==
    /\ query[1].fn = "check_argument_call"
    /\ query[1].pending
    /\ query' = Some([query[1] EXCEPT !.pending = FALSE])
    /\ answer' = check_argument_call(query[1].call, query[1].pattern,
                                     query[1].name, query[1].api,
                                     query[1].category)
    /\ UNCHANGED <<parseVars, reconVars, viewVars, runVars, sigVars,
                   twoVars, parserVars, machVars, last>>

NextCheck ==
    \/ CheckValue
    \/ CheckArgumentCall

SpecCheck == InitCheck /\ [][NextCheck]_vars

-----------------------------------------------------------------------------
(* Machinery._wait_status and LibVirtMachinery
   (lib/cuckoo/common/abstracts.py) *)

RUNNING == "running"

PAUSED == "paused"

POWEROFF == "poweroff"

ERROR == "machete"

\* what libvirt answers to vm.state(flags=0): a libvirtError, an empty answer,
\* or a list whose first item is the number of the domain state
StateAnswers == {"libvirtError", "empty", "0", "1", "3", "4", "5"}

\* _status(label): what it returns or raises and the connections it leaves
\* open; connected tells whether _connect got a connection.  With an empty
\* answer the local `status` is never assigned and `if status:` raises
\* UnboundLocalError, a NameError.
status(connected, reply) ==
    IF ~connected THEN [ret |-> Raised("CuckooMachineError"), open |-> 0]
    ELSE IF reply = "libvirtError"
    THEN [ret |-> Raised("CuckooMachineError"), open |-> 1 - 1]
    ELSE IF reply = "empty"
    THEN [ret |-> Raised("UnboundLocalError"), open |-> 1 - 1]
    ELSE [ret |-> Returned(Some(CASE reply = "1" -> RUNNING
                                  [] reply = "3" -> PAUSED
                                  [] reply \in {"4", "5"} -> POWEROFF
                                  [] OTHER -> ERROR)),
          open |-> 1 - 1]

\* the exceptions `except NameError` catches
NameErrors == {"NameError", "UnboundLocalError"}

\* dump_memory, _lookup, _list: conn = self._connect(), then one libvirt call
\* inside try ... except libvirtError ... finally: self._disconnect(conn)
guarded(connected, ok) ==
    IF ~connected THEN [ret |-> Raised("CuckooMachineError"), open |-> 0]
    ELSE [ret |-> IF ok THEN Returned(None) ELSE Raised("CuckooMachineError"),
          open |-> 1 - 1]

\* _get_snapshot(label): the current snapshot, else the latest of the list
\* (an IndexError when the list is empty), all inside try ... finally
SnapshotAnswers == {"current", "latest", "nosnapshots", "libvirtError"}

get_snapshot(connected, reply) ==
    IF ~connected THEN [ret |-> Raised("CuckooMachineError"), open |-> 0]
    ELSE [ret |-> CASE reply = "libvirtError" -> Raised("CuckooMachineError")
                    [] reply = "nosnapshots" -> Raised("IndexError")
                    [] OTHER -> Returned(Some(reply)),
          open |-> 1 - 1]

\* a poll of _wait_status or the test on entry of start and stop, recorded
Polled(m, r) ==
    [m EXCEPT !.last = r.ret, !.open = @ + r.open]

Done(m, result) == [m EXCEPT !.pc = "done", !.ret = result]

\* _wait_status(label, state): the first poll, before the loop
wait_first(m, r) ==
    LET m1 == [Polled(m, r) EXCEPT !.polls = @ + 1]
    IN  IF r.ret.raised \in NameErrors THEN Done(m1, Returned(None))
        ELSE IF r.ret.raised # "" THEN Done(m1, r.ret)
        ELSE [m1 EXCEPT !.pc = "loop", !.current = r.ret.value[1]]

\* one test of the while condition and, when it holds, one turn of the loop
wait_turn(m, vm_state, r) ==
    IF m.current \in m.want THEN Done(m, Returned(None))
    ELSE IF m.waitme > vm_state THEN Done(m, Raised("CuckooMachineError"))
    ELSE LET m1 == [Polled(m, r) EXCEPT !.polls = @ + 1, !.waitme = @ + 1]
         IN  IF r.ret.raised # "" THEN Done(m1, r.ret)
             ELSE [m1 EXCEPT !.current = r.ret.value[1]]

\* start(label) up to its test of the status on entry; r is what _status did
start_entry(m, r) ==
    LET m1 == [Polled(m, r) EXCEPT !.op = "start",
                   !.entry = IF r.ret.raised = "" THEN r.ret.value[1] ELSE ""]
    IN  IF r.ret.raised # "" THEN Done(m1, r.ret)
        ELSE IF r.ret.value[1] # POWEROFF
        THEN Done(m1, Raised("CuckooMachineError"))
        ELSE [m1 EXCEPT !.pc = "revert"]

\* what the environment does during the rest of start: whether _connect gets
\* a connection, the database lookup, whether a snapshot is configured, the
\* listing of the snapshot names, whether the lookup and the revert succeed,
\* and the two calls of _get_snapshot
StartEnvs ==
    [connected : BOOLEAN, db : {"ok", "raises"}, configured : BOOLEAN,
     listing : {"listed", "absent", "libvirtError"}, reverts : BOOLEAN,
     connected1 : BOOLEAN, current1 : SnapshotAnswers,
     connected2 : BOOLEAN, current2 : SnapshotAnswers]

\* start(label) from conn = self._connect() to the call of _wait_status: the
\* database lookup, the listing, and both calls of _get_snapshot stand outside
\* every try, so an exception of theirs leaves conn open
start_revert(m, e) ==
    LET left(n, tag, result) ==
            Done([m EXCEPT !.open = @ + n, !.env = tag], result)
        reverted(tag) ==
            IF e.reverts
            THEN [m EXCEPT !.open = @ + (1 - 1), !.env = tag,
                           !.reverted = TRUE, !.pc = "wait",
                           !.want = {RUNNING}]
            ELSE left(1 - 1, tag, Raised("CuckooMachineError"))
        g1 == get_snapshot(e.connected1, e.current1)
        g2 == get_snapshot(e.connected2, e.current2)
    IN  IF ~e.connected THEN left(0, "connect", Raised("CuckooMachineError"))
        ELSE IF e.db = "raises" THEN left(1, "db", Raised("DatabaseError"))
        ELSE IF e.listing = "libvirtError"
        THEN left(1, "listing", Raised("libvirtError"))
        ELSE IF e.configured /\ e.listing = "listed"
        THEN reverted("configured")
        ELSE IF g1.ret.raised # ""
        THEN left(1 + g1.open, "current", g1.ret)
        ELSE IF g1.ret.value # None
        THEN IF g2.ret.raised # ""
             THEN left(1 + g1.open + g2.open, "current", g2.ret)
             ELSE reverted("current")
        ELSE left(1 - 1, "nosnapshot", Raised("CuckooMachineError"))

\* stop(label) up to its test of the status on entry
stop_entry(m, r) ==
    LET m1 == [Polled(m, r) EXCEPT !.op = "stop",
                   !.entry = IF r.ret.raised = "" THEN r.ret.value[1] ELSE ""]
    IN  IF r.ret.raised # "" THEN Done(m1, r.ret)
        ELSE IF r.ret.value[1] = POWEROFF
        THEN Done(m1, Raised("CuckooMachineError"))
        ELSE [m1 EXCEPT !.pc = "destroy"]

\* what libvirt answers to isActive() and destroy()
StopEnvs ==
    [connected : BOOLEAN, active : {"active", "inactive", "libvirtError"},
     destroys : BOOLEAN]

\* stop(label) from conn = self._connect() to the call of _wait_status
stop_destroy(m, e) ==
    IF ~e.connected
    THEN Done([m EXCEPT !.env = "connect"], Raised("CuckooMachineError"))
    ELSE IF e.active = "libvirtError" \/ (e.active = "active" /\ ~e.destroys)
    THEN Done([m EXCEPT !.open = @ + (1 - 1), !.env = e.active],
              Raised("CuckooMachineError"))
    ELSE [m EXCEPT !.open = @ + (1 - 1), !.env = e.active,
                   !.destroyed = (e.active = "active"),
                   !.pc = "wait", !.want = {POWEROFF}]

\* the state argument of _wait_status: one status or a list of them
WaitFor == {{RUNNING}, {POWEROFF}, {RUNNING, PAUSED}}

StartEntry ==
    /\ mach.pc = "idle"
    /\ \E connected \in BOOLEAN, reply \in StateAnswers :
           mach' = start_entry(mach, status(connected, reply))
    /\ UNCHANGED <<parseVars, reconVars, viewVars, runVars, sigVars,
                   twoVars, parserVars, checkVars, timeout, last>>

StartRevert ==
    /\ mach.op = "start"
    /\ mach.pc = "revert"
    /\ \E e \in StartEnvs : mach' = start_revert(mach, e)
    /\ UNCHANGED <<parseVars, reconVars, viewVars, runVars, sigVars,
                   twoVars, parserVars, checkVars, timeout, last>>

StopEntry ==
    /\ mach.pc = "idle"
    /\ \E connected \in BOOLEAN, reply \in StateAnswers :
           mach' = stop_entry(mach, status(connected, reply))
    /\ UNCHANGED <<parseVars, reconVars, viewVars, runVars, sigVars,
                   twoVars, parserVars, checkVars, timeout, last>>

StopDestroy ==
    /\ mach.op = "stop"
    /\ mach.pc = "destroy"
    /\ \E e \in StopEnvs : mach' = stop_destroy(mach, e)
    /\ UNCHANGED <<parseVars, reconVars, viewVars, runVars, sigVars,
                   twoVars, parserVars, checkVars, timeout, last>>

\* self._wait_status(label, state) called on its own
WaitStatusCall ==
    /\ mach.pc = "idle"
    /\ \E state \in WaitFor :
           mach' = [mach EXCEPT !.op = "_wait_status", !.pc = "wait",
                                !.want = state]
    /\ UNCHANGED <<parseVars, reconVars, viewVars, runVars, sigVars,
                   twoVars, parserVars, checkVars, timeout, last>>

WaitFirstPoll ==
    /\ mach.pc = "wait"
    /\ \E connected \in BOOLEAN, reply \in StateAnswers :
           mach' = wait_first(mach, status(connected, reply))
    /\ UNCHANGED <<parseVars, reconVars, viewVars, runVars, sigVars,
                   twoVars, parserVars, checkVars, timeout, last>>

WaitTurn ==
    /\ mach.pc = "loop"
    /\ \E connected \in BOOLEAN, reply \in StateAnswers :
           mach' = wait_turn(mach, timeout, status(connected, reply))
    /\ UNCHANGED <<parseVars, reconVars, viewVars, runVars, sigVars,
                   twoVars, parserVars, checkVars, timeout, last>>

\* self._status(label) called on its own
Status ==
    /\ mach.pc = "idle"
    /\ \E connected \in BOOLEAN, reply \in StateAnswers :
           LET r == status(connected, reply)
           IN  mach' = Done([Polled(mach, r) EXCEPT !.op = "_status",
                                                    !.env = reply], r.ret)
    /\ UNCHANGED <<parseVars, reconVars, viewVars, runVars, sigVars,
                   twoVars, parserVars, checkVars, timeout, last>>

\* self.dump_memory(label, path), self._lookup(label), self._list()
Guarded ==
    /\ mach.pc = "idle"
    /\ \E name \in {"dump_memory", "_lookup", "_list"},
          connected \in BOOLEAN, ok \in BOOLEAN :
           LET r == guarded(connected, ok)
           IN  mach' = Done([mach EXCEPT !.op = name, !.open = @ + r.open],
                            r.ret)
    /\ UNCHANGED <<parseVars, reconVars, viewVars, runVars, sigVars,
                   twoVars, parserVars, checkVars, timeout, last>>

\* self._get_snapshot(label) called on its own
GetSnapshot ==
    /\ mach.pc = "idle"
    /\ \E connected \in BOOLEAN, reply \in SnapshotAnswers :
           LET r == get_snapshot(connected, reply)
           IN  mach' = Done([mach EXCEPT !.op = "_get_snapshot",
                                         !.env = reply,
                                         !.open = @ + r.open], r.ret)
    /\ UNCHANGED <<parseVars, reconVars, viewVars, runVars, sigVars,
                   twoVars, parserVars, checkVars, timeout, last>>

InitMach ==
    /\ InitParse
    /\ InitRecon
    /\ InitRun
    /\ IdleView
    /\ InitSig(FALSE)
    /\ InitTwo
    /\ IdleParser
    /\ IdleCheck
    /\ last = NoEvent
    /\ mach = NoOperation
    \* _initialize_check refuses a configuration without a vm_state timeout
    /\ timeout \in 1..MaxTimeout

NextMach ==
    \/ StartEntry
    \/ StartRevert
    \/ StopEntry
    \/ StopDestroy
    \/ WaitStatusCall
    \/ WaitFirstPoll
    \/ WaitTurn
    \/ Status
    \/ Guarded
    \/ GetSnapshot

SpecMach == InitMach /\ [][NextMach]_vars

-----------------------------------------------------------------------------
(* Properties of the reconstruction pass (Spec) *)

RecordsOf(pid) == {i \in DOMAIN processes : processes[i].pid = pid}

\* C1, as claimed: whenever a clone or fork issued by P returned C and a later
\* event has pid C, the process list holds a record with pid C and ppid P.
ForkerIsParent ==
    \A pc \in h_after :
        \E i \in RecordsOf(pc[2]) : processes[i].ppid = pc[1]

\* C1, amended: the record of pid C is created by the first event of pid C that
\* finds C in the fork map, and its ppid is the issuer of the most recent clone
\* or fork returning C up to and including that event; there is exactly one
\* such record, whatever clone or fork returns C later.
ParentIsLastForker ==
    \A c \in DOMAIN h_first :
        /\ Cardinality(RecordsOf(c)) = 1
        /\ \A i \in RecordsOf(c) : processes[i].ppid = h_first[c]

ParentIsLastForker_witness ==
    \E pc \in h_after :
        /\ pc[1] # pc[2]
        /\ pc[2] \in DOMAIN h_first
        /\ h_first[pc[2]] = pc[1]
        /\ \E i \in RecordsOf(pc[2]) : processes[i].ppid = pc[1]

\* C2: execve handling changes the process_name and command_line of a pid's
\* record, and emits the record, at most once.
ExecveUpdatesOnce == \A p \in DOMAIN h_execs : h_execs[p] <= 1

\* C3: an execve event whose return value is reported as 0, for a tracked process
\* whose command_line is still empty, sets process_name to the basename of
\* argument 0 and command_line to the joined argument-1 list, and parse emits
\* the record.
SuccessfulExecveUpdates ==
    (/\ last.api = "execve"
     /\ last.return_value = <<"0">>
     /\ h_pre # <<>>
     /\ h_pre[1].command_line = <<>>)
    => LET rec == processes[get_proc(processes, last.pid)]
       IN  /\ rec.process_name = basename(last.arguments.p0)
           /\ rec.command_line = join(last.arguments.p1)
           /\ \E k \in DOMAIN yielded : yielded[k] = rec

\* C8: an event whose pid is not a key of the fork map when parse tests it
\* creates no process record, emits nothing and changes no BehaviorState (only
\* the fork map may have changed, in pre_hook); so every record's pid is a key
\* of the fork map, and a pid no clone or fork returned has no record.
UntrackedPidSkipped ==
    /\ [](\A i \in DOMAIN processes : processes[i].pid \in DOMAIN forkmap)
    /\ [][(last'.pid \notin DOMAIN forkmap')
            => (/\ processes' = processes
                /\ behavior' = behavior
                /\ yielded' = <<>>)]_vars

UntrackedPidSkipped_witness ==
    /\ last.api = "open"
    /\ last.pid \notin DOMAIN forkmap
    /\ processes # <<>>
    /\ yielded = <<>>

\* C32: the process list holds at most one record per pid; a record is
\* created for a pid that is a key of the fork map; records are only appended,
\* none is removed, and the pid, ppid and first_seen of a record stay as
\* created, also when a later clone or fork returns its pid.
RecordsAppendOnly ==
    /\ [](\A i, j \in DOMAIN processes :
             processes[i].pid = processes[j].pid => i = j)
    /\ [][/\ Len(processes') \in {Len(processes), Len(processes) + 1}
          /\ \A i \in DOMAIN processes :
                /\ processes'[i].pid = processes[i].pid
                /\ processes'[i].ppid = processes[i].ppid
                /\ processes'[i].first_seen = processes[i].first_seen
          /\ Len(processes') > Len(processes)
             => /\ processes'[Len(processes')].pid = last'.pid
                /\ last'.pid \in DOMAIN forkmap']_vars

RecordsAppendOnly_witness ==
    /\ Len(processes) = 2
    /\ last.api \in {"clone", "fork"}
    /\ int(last.return_value) = processes[1].pid
    /\ last.pid # processes[1].ppid
    /\ forkmap[processes[1].pid] = last.pid
    /\ processes[1].first_seen < processes[2].first_seen

\* the maps of pid p, empty when parse holds no reconstructor for it
MapsOf(beh, p) ==
    IF p \in DOMAIN beh THEN beh[p] ELSE [files |-> EmptyMap, sockets |-> EmptyMap]

\* C33: descriptor state is per process: an event of one process leaves the
\* maps of every other process as they were, and a read, write or close of a
\* process on a descriptor that is not in its own maps emits no fact and
\* changes no map, whatever other processes (its parent included) have open.
DescriptorsPerProcess ==
    [][/\ \A q \in DOMAIN behavior :
             q # last'.pid => behavior'[q] = behavior[q]
       /\ \A q \in DOMAIN behavior' : q # last'.pid => q \in DOMAIN behavior
       /\ (/\ last'.api \in {"read", "write", "close"}
           /\ last'.arguments.fd \notin DOMAIN MapsOf(behavior, last'.pid).files
           /\ last'.arguments.fd \notin DOMAIN MapsOf(behavior, last'.pid).sockets)
          => /\ yielded' = <<>>
             /\ MapsOf(behavior', last'.pid) = MapsOf(behavior, last'.pid)]_vars

DescriptorsPerProcess_witness ==
    /\ last.api = "read"
    /\ last.pid = 3
    /\ 3 \in DOMAIN forkmap
    /\ forkmap[3] = 2
    /\ 2 \in DOMAIN behavior
    /\ last.arguments.fd \in DOMAIN behavior[2].files
    /\ Len(processes) = 2 /\ processes[2].ppid = 2
    /\ MapsOf(behavior, 3).files = EmptyMap
    /\ yielded = <<>>

-----------------------------------------------------------------------------
(* Properties of one BehaviorReconstructor (SpecRecon) *)

\* C4: after a close of descriptor f, a read or write on f emits no fact, until
\* an open returns f again.
ClosedFdEmitsNothing ==
    (last.api \in {"read", "write"} /\ last.arguments.fd \in h_closed)
    => ret = <<>>

ClosedFdEmitsNothing_witness ==
    /\ last.api = "read"
    /\ last.arguments.fd \in h_closed
    /\ last.arguments.fd \in h_opened
    /\ DOMAIN recon.files # {}
    /\ ret = <<>>

\* C5: no descriptor is a key of both the files map and the sockets map.
FdMapsDisjoint == (DOMAIN recon.files) \cap (DOMAIN recon.sockets) = {}

\* C6: open of path p returning f emits files_opened(p) and records f -> p; a
\* later read on f emits files_read(p) and a later write on f emits
\* files_written(p) while f is neither closed nor re-opened; stat emits
\* file_exists(path) and leaves both maps as they were.
OpenReadWriteFacts ==
    /\ last.api = "open"
       => /\ ret = single("files_opened", last.arguments.path)
          /\ last.return_value \in DOMAIN recon.files
          /\ recon.files[last.return_value] = last.arguments.path
    /\ (last.api = "read" /\ last.arguments.fd \in DOMAIN h_open)
       => ret = single("files_read", h_open[last.arguments.fd])
    /\ (last.api = "write" /\ last.arguments.fd \in DOMAIN h_open)
       => ret = single("files_written", h_open[last.arguments.fd])
    /\ last.api = "stat"
       => /\ ret = single("file_exists", last.arguments.path)
          /\ recon = h_prev.recon

\* C7: a write, read or close on a descriptor that is not tracked (never
\* returned by open or socket, or closed since) emits no fact and leaves the
\* files map and the sockets map unchanged.
UntrackedFdIgnored ==
    (/\ last.api \in {"write", "read", "close"}
     /\ last.arguments.fd \notin h_prev.tracked)
    => (ret = <<>> /\ recon = h_prev.recon)

UntrackedFdIgnored_witness ==
    /\ last.api = "write"
    /\ last.arguments.fd \in h_prev.closed
    /\ last.arguments.fd \notin h_prev.tracked
    /\ DOMAIN recon.files # {}
    /\ DOMAIN recon.sockets # {}

\* C34: every open, whatever it returned (the error return -1 too), emits
\* files_opened(path) and records its return value as a descriptor of the
\* path; a later read or write on that value, not closed or re-opened since,
\* emits one file fact for the path.
OpenTracksAnyReturn ==
    /\ last.api = "open"
       => /\ ret = single("files_opened", last.arguments.path)
          /\ last.return_value \in DOMAIN recon.files
          /\ recon.files[last.return_value] = last.arguments.path
    /\ (last.api \in {"read", "write"} /\ last.arguments.fd \in DOMAIN h_open)
       => /\ Len(ret) = 1
          /\ ret[1][1] \in {"files_read", "files_writen", "files_written"}
          /\ ret[1][2] = h_open[last.arguments.fd]

OpenTracksAnyReturn_witness ==
    /\ last.api = "read"
    /\ last.arguments.fd = <<"-", "1">>
    /\ last.arguments.fd \in DOMAIN h_open
    /\ ret = single("files_read", <<"/", "b">>)
    /\ Cardinality(DOMAIN recon.files) = 2

-----------------------------------------------------------------------------
(* Properties of the traversals (SpecView) *)

SameView == trav[1].kind = trav[2].kind /\ trav[1].kwfilters = trav[2].kwfilters

\* C9: two traversals of the same view, one after the other, yield the same
\* sequence of events (and end the same way); a traversal of the parser that
\* no other traversal overlaps yields the whole log from its first line.
SequentialReplay ==
    ~h_overlap =>
        /\ (SameView /\ Finished(trav[1]) /\ Finished(trav[2]))
           => (trav[1].out = trav[2].out /\ trav[1].st = trav[2].st)
        /\ \A i \in {1, 2} :
              (trav[i].kind = "parser" /\ Finished(trav[i]))
              => trav[i].out = log

SequentialReplay_witness ==
    /\ ~h_overlap
    /\ SameView
    /\ trav[1].kind = "view"
    /\ trav[1].st = "done" /\ trav[2].st = "done"
    /\ Len(trav[2].out) = 2
    /\ Len(log) = 3

\* C10: however the steps of the traversals of two views are interleaved, each
\* yields exactly the sequence it yields when traversed alone.
InterleavingHarmless ==
    (trav[1].kind = "view" /\ trav[2].kind = "view")
    => \A i \in {1, 2} :
          Finished(trav[i])
          => /\ trav[i].out = Alone(trav[i]).out
             /\ trav[i].st = Alone(trav[i]).st

\* C31: with the view of a process record traversed while parse is part-way
\* through the parser, the loop of parse still receives every line of the
\* trace once and in order (its process list and facts are computed from the
\* events it receives).
PassUndisturbed ==
    (trav[1].kind = "parser" /\ trav[2].kind = "view" /\ Finished(trav[1]))
    => trav[1].out = log

\* the events of a stream that a conjunction of equality filters selects, as
\* the views hand them out (without their type marker)
Matches(event, kwfilters) ==
    \A k \in 1..Len(kwfilters) : event[kwfilters[k][1]] = kwfilters[k][2]

RECURSIVE Selected(_, _)
Selected(events, kwfilters) ==
    IF events = <<>> THEN <<>>
    ELSE (IF Matches(Head(events), kwfilters)
          THEN <<Del(Head(events), "type")>> ELSE <<>>)
         \o Selected(Tail(events), kwfilters)

\* C11: a view built with zero, one or several equality filters, traversed to
\* its end with no other traversal in between, ends normally and has yielded
\* exactly the events of the log that satisfy every filter, each once, in log
\* order, without the type marker.
ViewYieldsMatching ==
    ~h_overlap =>
        \A i \in {1, 2} :
            (trav[i].kind = "view" /\ Finished(trav[i]))
            => /\ trav[i].st = "done"
               /\ trav[i].out = Selected(log, trav[i].kwfilters)

-----------------------------------------------------------------------------
(* Properties of handles_path and run (SpecRun) *)

\* C12: run returns None exactly when handles_path has not accepted a path
\* ending in .stap before the call; once such a path was accepted run returns
\* the process list (possibly empty), never None.
RunNoneIffUnmatched ==
    runres.called =>
        /\ (runres.value = None) <=> ~h_before.accepted
        /\ h_before.accepted => runres.value = Some(processes)

RunNoneIffUnmatched_witness ==
    /\ runres.called
    /\ h_before.accepted
    /\ runres.value = Some(<<>>)

Count(l, x) == Cardinality({i \in DOMAIN l : l[i] = x})

\* C13: the list run returns holds exactly the records the pass created, each
\* as often as the pass had it, with first_seen non-decreasing along the list.
RunSortsByFirstSeen ==
    runres.value # None =>
        LET l == runres.value[1]
            b == h_before.processes
        IN  /\ Len(l) = Len(b)
            /\ \A i \in DOMAIN b : Count(l, b[i]) = Count(b, b[i])
            /\ \A i \in 1..(Len(l) - 1) :
                  l[i].first_seen <= l[i + 1].first_seen

RunSortsByFirstSeen_witness ==
    /\ runres.value # None
    /\ Len(h_before.processes) = 3
    /\ h_before.processes[1].first_seen > h_before.processes[3].first_seen
    /\ h_before.processes[2].first_seen = h_before.processes[3].first_seen

-----------------------------------------------------------------------------
(* Properties of Signature (SpecSig) and SignatureFlags (SpecFlags) *)

\* C14: activation is a two-state machine: a new signature is active;
\* deactivate leaves it inactive and activate leaves it active, whatever it was
\* before (so each is idempotent); no other operation (goto_on_call, on_call
\* returning, add_match, flags.set, mark_start, mark_end, as_result) changes
\* is_active().
ActivationTwoStates ==
    /\ [](op.name = "__init__" => is_active(sig))
    /\ [][/\ op'.name = "deactivate" => ~is_active(sig')
          /\ op'.name = "activate" => is_active(sig')
          /\ op'.name \notin {"deactivate", "activate"}
             => is_active(sig') = is_active(sig)]_vars

ActivationTwoStates_witness ==
    /\ ~is_active(sig)
    /\ op.name = "as_result"
    /\ h_sig.call # None
    /\ Len(sig.data) = MaxMatches
    /\ sig.flags # <<>>
    /\ sig.mark_start # None
    /\ sig.mark_end # None

\* C35: deactivate and activate change the activation state only: evidence,
\* flags, markers and pid/tid/cid are after the call what they were before;
\* as_result changes nothing of the signature.
ActivationFrame ==
    [][/\ op'.name \in {"deactivate", "activate"}
          => sig' = [sig EXCEPT !.active = sig'.active]
       /\ op'.name = "as_result" => sig' = sig]_vars

ActivationFrame_witness ==
    /\ op.name = "activate"
    /\ is_active(sig)
    /\ Len(sig.data) = MaxMatches
    /\ sig.flags # <<>>
    /\ sig.mark_start # None
    /\ sig.mark_end # None
    /\ sig.pid # None

\* C15: on_call never runs on a signature whose is_active() is false at the
\* moment goto_on_call invokes it.
OnCallOnlyWhileActive == ~h_sig.inactive_call

\* the flags a find with arguments a is to return: name, pid and tid equal to
\* the given values, and a timestamp inside the window
Wanted(item, a) ==
    /\ a.name # None => item.name = a.name[1]
    /\ a.pid # None => item.pid = a.pid
    /\ a.tid # None => item.tid = a.tid
    /\ a.before # None
       => (item.timestamp # None /\ item.timestamp[1] <= a.before[1])
    /\ a.after # None
       => (item.timestamp # None /\ a.after[1] <= item.timestamp[1])

\* C16: find returns, in insertion order, exactly the stored flags that agree
\* with every filter given and whose timestamp lies in [after, before]; with
\* no filter it returns all of them.
FindReturnsWindow ==
    op.name = "find"
    => sigret.value[1] = SelectSeq(sig.flags, LAMBDA item : Wanted(item, op.args[1]))

\* C17: the stored flags never hold two equal entries; set appends its tuple at
\* the end when no equal entry is stored and otherwise changes nothing; find
\* changes nothing.
FlagsUniqueAppendOnly ==
    /\ [](\A i, j \in DOMAIN sig.flags : sig.flags[i] = sig.flags[j] => i = j)
    /\ [][/\ op'.name = "set"
             => sig'.flags =
                   IF \E i \in DOMAIN sig.flags : sig.flags[i] = op'.args[1]
                   THEN sig.flags ELSE Append(sig.flags, op'.args[1])
          /\ op'.name # "set" => sig'.flags = sig.flags]_vars

FlagsUniqueAppendOnly_witness ==
    /\ op.name = "set"
    /\ Len(sig.flags) = 2
    /\ sig.flags[1] = op.args[1]

\* C18: the evidence is the sequence of add_match calls in call order: one
\* record per call, appended at the end, earlier records untouched; a record
\* holds one sign per element of a list value and one sign for any other
\* value, each of the given type; has_matches() tells whether add_match was
\* ever called.
EvidenceIsCallSequence ==
    /\ [](/\ Len(sig.data) = Len(h_sig.matches)
          /\ has_matches(sig) <=> (Len(h_sig.matches) > 0)
          /\ \A i \in DOMAIN sig.data :
                LET a == h_sig.matches[i]
                    signs == sig.data[i].signs
                    values == IF a.match.kind = "list" THEN a.match.items
                              ELSE <<a.match>>
                IN  /\ Len(signs) = Len(values)
                    /\ \A j \in DOMAIN signs :
                          signs[j] = [type |-> a.type, value |-> values[j]])
    /\ [][SubSeq(sig'.data, 1, Len(sig.data)) = sig.data]_vars

EvidenceIsCallSequence_witness ==
    /\ Len(sig.data) = 2
    /\ Len(sig.data[1].signs) = 1
    /\ Len(sig.data[2].signs) = 2
    /\ op.name = "add_match"

\* C19: as_result reports no marker exactly when mark_start was never called
\* (mark_end or not); when it reports one, its end is empty exactly when
\* mark_end was never called.
MarkerNeedsStart ==
    LET marker == as_result(sig).marker
    IN  /\ (marker = None) <=> (h_sig.start = None)
        /\ marker # None => ((marker[1].end = EmptyMap) <=> (h_sig.end = None))

MarkerNeedsStart_witness ==
    /\ op.name = "as_result"
    /\ sigret.value[1].marker = None
    /\ h_sig.end # None

\* the (pid, tid, cid) a mark holds when the most recent goto_on_call before it
\* was c (None when there was none)
PositionOf(c) ==
    IF c = None THEN [pid |-> None, tid |-> None, cid |-> None]
    ELSE [pid |-> Some(c[1].pid), tid |-> Some(c[1].tid), cid |-> Some(c[1].cid)]

\* C20: the start (end) of the marker is the (pid, tid, cid) of the most recent
\* goto_on_call before the last mark_start (mark_end), also when the mark is
\* set while that call's on_call is running; a later mark_start replaces it, a
\* later goto_on_call does not.
MarkHoldsCallPosition ==
    LET marker == as_result(sig).marker
    IN  /\ (sig.mark_start = None) <=> (h_sig.start = None)
        /\ (sig.mark_end = None) <=> (h_sig.end = None)
        /\ marker # None
           => /\ marker[1].start = PositionOf(h_sig.start[1])
              /\ h_sig.end # None => marker[1].end = PositionOf(h_sig.end[1])

MarkHoldsCallPosition_witness ==
    /\ incall
    /\ sig.mark_start # None
    /\ sig.mark_end # None
    /\ sig.mark_start[1].pid # None
    /\ sig.mark_start[1] # Position(sig)
    /\ sig.mark_end[1] = Position(sig)

\* C21: a marker reported with a non-empty end has its end recorded by a
\* mark_end called after the mark_start that recorded its start.
MarkerEndAfterStart ==
    LET marker == as_result(sig).marker
    IN  (marker # None /\ marker[1].end # EmptyMap) => ~h_sig.endfirst

\* C22: on a signature whose class overrides no hook, quickout, on_call (also
\* through goto_on_call), on_complete and on_signature end in
\* NotImplementedError and hand back no value; on_process and on_thread return
\* None and leave the instance as it was.
BaseHooksFail ==
    [][~sig.overrides
       => /\ op'.name \in {"quickout", "on_call", "goto_on_call", "on_complete",
                            "on_signature"}
             => (sigret'.raised = "NotImplementedError" /\ sigret'.value = None)
          /\ op'.name \in {"on_process", "on_thread"}
             => (sigret' = Returned(None) /\ sig' = sig)]_vars

BaseHooksFail_witness ==
    /\ ~sig.overrides
    /\ op.name = "on_complete"
    /\ sigret.raised = "NotImplementedError"
    /\ has_matches(sig)
    /\ h_sig.call # None

-----------------------------------------------------------------------------
(* Properties of two Signature instances (SpecTwo) *)

\* C23: a flags.set, add_match, mark_start, mark_end, goto_on_call, deactivate
\* or activate on one instance leaves the other instance's flags, evidence,
\* markers, pid/tid/cid and activation state as they were.
InstanceStatePrivate ==
    [][\A x \in Instances :
          op'.args = Some(x)
          => \A y \in Instances \ {x} :
                Deref(heap', insts'[y]) = Deref(heap, insts[y])]_vars

InstanceStatePrivate_witness ==
    /\ op.args = Some("A")
    /\ Len(Self("A").data) = 2
    /\ Self("A").flags # <<>>
    /\ Self("A").mark_end # None
    /\ ~Self("A").active
    /\ Len(Self("B").data) = 1
    /\ Self("B").mark_start # None
    /\ Self("B").pid = None

-----------------------------------------------------------------------------
(* Properties of the trace parser's events (SpecParser) *)

Categories == {"default", "file", "network"}

\* C24: every event the parser yields, whatever its API name, has a category
\* among default, file and network.
CategoryClosed ==
    stapevent # None => stapevent[1].category \in Categories

CategoryClosed_witness ==
    /\ stapevent # None
    /\ stapevent[1].api = "socket"
    /\ stapevent[1].category = "network"
    /\ "type" \in DOMAIN stapevent[1].arguments

\* the value a written element stands for
RECURSIVE Written(_)
Written(t) ==
    CASE t.kind \in {"token", "quoted"} -> PyStr(t.text)
      [] t.kind = "array"
         -> PyList([i \in 1..Len(t.items) |-> Written(t.items[i])])
      [] t.kind = "struct"
         -> PyDict([k \in {t.fields[i][1] : i \in 1..Len(t.fields)} |->
                       Written((CHOOSE f \in {t.fields[i] : i \in 1..Len(t.fields)} :
                                   f[1] = k)[2])])


\* the arguments hold the line's positional argument i under name, and no
\* longer under its positional key
RenamedTo(i, name) ==
    LET decoded == parse_args(stapline[1].args)
    IN  PName(i) \in DOMAIN decoded
        => /\ name \in DOMAIN stapevent[1].arguments
           /\ stapevent[1].arguments[name] = decoded[PName(i)]
           /\ PName(i) \notin DOMAIN stapevent[1].arguments

\* C25: an open, creat, chmod, chdir or stat event has category file and its
\* first three positional arguments, as far as present, under path, mode and
\* flags, with no positional key left for them.
FileApisRenamed ==
    (stapline # None /\ stapevent # None
     /\ stapevent[1].api \in {"open", "creat", "chmod", "chdir", "stat"})
    => /\ stapevent[1].category = "file"
       /\ RenamedTo(0, "path")
       /\ RenamedTo(1, "mode")
       /\ RenamedTo(2, "flags")

\* C26: a getsockopt or setsockopt event has category network and its
\* arguments under sockfd, level, optname and optval, with no key optlen.
SockoptRenamed ==
    (stapline # None /\ stapevent # None
     /\ stapevent[1].api \in {"getsockopt", "setsockopt"})
    => /\ stapevent[1].category = "network"
       /\ RenamedTo(0, "sockfd")
       /\ RenamedTo(1, "level")
       /\ RenamedTo(2, "optname")
       /\ RenamedTo(3, "optval")
       /\ "optlen" \notin DOMAIN stapevent[1].arguments

\* the names p0 .. p(n-1)
PNames(n) == {PName(i) : i \in 0..(n - 1)}

\* C27: an event whose API name has no dispatch entry has category default
\* and arguments named p0, p1, ...; when it reaches the reconstructor it emits
\* no fact and leaves the files and sockets maps as they were.
UnknownApiFallsThrough ==
    /\ [](stapevent # None /\ stapevent[1].api \notin DispatchEntries
          => /\ stapevent[1].category = "default"
             /\ DOMAIN stapevent[1].arguments =
                    PNames(Cardinality(DOMAIN stapevent[1].arguments)))
    /\ [][(stapline # None /\ stapline' = None
           /\ stapevent[1].api \notin DispatchEntries)
          => (recon' = recon /\ ret' = <<>>)]_vars

UnknownApiFallsThrough_witness ==
    /\ stapline = None
    /\ stapevent # None
    /\ stapevent[1].api = "getpid"
    /\ DOMAIN stapevent[1].arguments = PNames(3)
    /\ recon.files # EmptyMap
    /\ ret = <<>>

\* C28: the blob of a line decodes to one argument per top-level element
\* written, each array and struct with the elements and the nesting it was
\* written with.
DecodeKeepsNesting ==
    (stapline # None /\ stapevent # None
     /\ stapevent[1].api \notin DispatchEntries)
    => LET written == stapline[1].written
       IN  /\ DOMAIN stapevent[1].arguments = PNames(Len(written))
           /\ \A i \in 1..Len(written) :
                 stapevent[1].arguments[PName(i - 1)] = Written(written[i])

\* arrays and structs of depth one decode as written
DecodeKeepsFlat ==
    (stapline # None /\ stapevent # None
     /\ stapevent[1].api \notin DispatchEntries
     /\ \A i \in 1..Len(stapline[1].written) :
           LET t == stapline[1].written[i]
           IN  /\ t.kind = "array"
                  => \A j \in 1..Len(t.items) : t.items[j].kind = "token"
               /\ t.kind = "struct"
                  => \A j \in 1..Len(t.fields) : t.fields[j][2].kind = "token")
    => DecodeKeepsNesting

-----------------------------------------------------------------------------
(* Properties of the signature checks (SpecCheck) *)

MatchingArguments(q) ==
    {n \in DOMAIN q.call.arguments :
        /\ Given(q.name) => n = q.name[1]
        /\ LET v == q.call.arguments[n]
           IN  IF v.kind = "list"
               THEN \E i \in 1..Len(v.items) : PyEq(v.items[i], q.pattern)
               ELSE PyEq(v, q.pattern)}

\* C30: check_argument_call raises nothing; it returns a falsy value when the
\* api or category filter excludes the call or no selected argument equals
\* the pattern, and otherwise the value of a matching argument (a falsy
\* result standing for an empty value).
CheckArgumentCallTotal ==
    (query # None /\ query[1].fn = "check_argument_call" /\ ~query[1].pending)
    => LET q == query[1]
           excluded == \/ Given(q.api) /\ q.call.api # q.api[1]
                       \/ Given(q.category)
                          /\ get_category(q.call) # q.category
       IN  /\ answer.raised = ""
           /\ (excluded \/ MatchingArguments(q) = {}) => ~TruthyResult(answer.value)
           /\ (~excluded /\ MatchingArguments(q) # {})
              => \E n \in MatchingArguments(q) :
                    \/ answer.value = Some(q.call.arguments[n])
                    \/ /\ ~TruthyValue(q.call.arguments[n])
                       /\ ~TruthyResult(answer.value)

-----------------------------------------------------------------------------
(* Properties of the machinery (SpecMach) *)

\* a call has ended: it returned or it raised
Ended(name) == mach.op = name /\ mach.pc = "done"

\* C36: _wait_status polls at most vm_state + 2 times; when it returns
\* normally its last poll reported a status among the requested ones, and
\* when it does not it raises CuckooMachineError.
WaitStatusOutcome ==
    mach.op = "_wait_status"
    => /\ mach.polls <= timeout + 2
       /\ mach.waitme <= timeout + 1
       /\ Ended("_wait_status")
          => IF mach.ret.raised = ""
             THEN /\ mach.last.raised = ""
                  /\ mach.last.value[1] \in mach.want
             ELSE mach.ret.raised = "CuckooMachineError"

\* C37: start returns normally only with the machine seen POWEROFF on entry,
\* a snapshot reverted and RUNNING the last polled status; stop returns
\* normally only with POWEROFF the last polled status; start on a machine
\* seen not POWEROFF and stop on a machine seen POWEROFF raise
\* CuckooMachineError with no snapshot reverted and no machine destroyed.
StartStopOutcome ==
    /\ (Ended("start") /\ mach.ret.raised = "")
       => /\ mach.entry = POWEROFF
          /\ mach.reverted
          /\ mach.last = Returned(Some(RUNNING))
    /\ (Ended("stop") /\ mach.ret.raised = "")
       => mach.last = Returned(Some(POWEROFF))
    /\ (mach.op = "start" /\ mach.entry \notin {"", POWEROFF})
       => /\ Ended("start")
          /\ mach.ret.raised = "CuckooMachineError"
          /\ ~mach.reverted
    /\ (mach.op = "stop" /\ mach.entry = POWEROFF)
       => /\ Ended("stop")
          /\ mach.ret.raised = "CuckooMachineError"
          /\ ~mach.destroyed

\* C38: an operation that has returned or raised has closed every connection
\* it opened.
ConnectionsClosed ==
    mach.pc = "done" => mach.open = 0

====
